---- MODULE Spec2Model ----
(***************************************************************************)
(* The OpenSCAD language server (server/src/server.ts, server/src/util.ts) *)
(* as a state machine: the document store, the analysis engine's file      *)
(* handles, the settings cache, and the asynchronous handlers, each of     *)
(* which is one record whose pc is the await it is suspended at.           *)
(***************************************************************************)
EXTENDS Integers, Sequences, FiniteSets, TLC

(* The number of notifications and requests the editor sends in one run. *)
MaxEvents == 3

(* What a lookup yields when nothing is there (JavaScript undefined); the   *)
(* document and handle objects are numbered from 1.                         *)
undefined == 0

(* A uri is the sequence of its parts, the scheme prefix being one part. *)
Uris == {<<"file://", "/a.scad">>, <<"file://", "/b.scad">>}

(* A text is a sequence of characters: "a" is a well-formed token, "x" a   *)
(* token the engine reports an error at, "?" a character the engine's      *)
(* lexer fails at, "\n" the line terminator.                               *)
Texts == {<<"a">>, <<"a", "\n", "x">>, <<"x", "\n", "x">>}

Max(a, b) == IF a >= b THEN a ELSE b

Min(a, b) == IF a <= b THEN a ELSE b

(***************************************************************************)
(* util.ts                                                                 *)
(***************************************************************************)
(* uri.replace(/^file:\/\//, ""): one leading prefix is removed, if any. *)
(* The conversion that strips every leading "file://". *)
RECURSIVE uriToPathStrippingAll(_)
uriToPathStrippingAll(uri) ==
  IF Len(uri) > 0 /\ Head(uri) = "file://" THEN uriToPathStrippingAll(Tail(uri))
  ELSE uri

uriToPath(uri) ==
  IF Len(uri) > 0 /\ Head(uri) = "file://" THEN Tail(uri) ELSE uri

pathToUri(path) == <<"file://">> \o path

Paths == {uriToPath(u) : u \in Uris}

(***************************************************************************)
(* TextDocument (the document store's objects)                             *)
(***************************************************************************)
(* The offsets at which the lines after the first one start: a line ends  *)
(* with "\n", with "\r" or with "\r" followed by "\n".                     *)
RECURSIVE computeLineOffsets(_, _)
computeLineOffsets(text, i) ==
  IF i > Len(text) THEN <<>>
  ELSE (IF \/ text[i] = "\n"
           \/ text[i] = "\r" /\ (i = Len(text) \/ text[i + 1] # "\n")
          THEN <<i>> ELSE <<>>) \o computeLineOffsets(text, i + 1)

(* textDocument.positionAt(offset): the offset is clamped into the text,   *)
(* the line is the last one that starts at or before it.                   *)
positionAt(text, offset) ==
  LET o == Max(Min(offset, Len(text)), 0)
      lineOffsets == <<0>> \o computeLineOffsets(text, 1)
      line == Cardinality({k \in 1..Len(lineOffsets) : lineOffsets[k] <= o}) - 1
  IN  [line |-> line, character |-> o - lineOffsets[line + 1]]

(***************************************************************************)
(* The analysis engine (SolutionManager, SolutionFile), seen through the   *)
(* calls the server makes.  Its analysis is a function of the text it was  *)
(* given: one error per "x" or "?", in text order, at its offset, and no    *)
(* syntax tree when the text holds a "?".                                  *)
(***************************************************************************)
RECURSIVE errorsOf(_, _)
errorsOf(text, i) ==
  IF i > Len(text) THEN <<>>
  ELSE (IF text[i] \in {"x", "?"}
          THEN <<[char |-> i - 1, message |-> "unexpected token"]>>
          ELSE <<>>) \o errorsOf(text, i + 1)

(* A handle object after the engine analysed `text` for `path`. *)
SolutionFile(path, text) ==
  [path |-> path, text |-> text, errors |-> errorsOf(text, 1),
   ast |-> \A k \in 1..Len(text) : text[k] # "?"]

(* f.getFormatted(): the engine's reprint of the text the handle holds. *)
getFormatted(f) == [formatted |-> f.text]

VARIABLES
  documents,        \* the document store: uri -> document object, or undefined
  docObjs,          \* the TextDocument objects ever created: [uri, text]
  files,            \* the engine's registry: path -> handle object, or undefined
  fileObjs,         \* the handle objects ever created: [path, text, errors]
  documentSettings, \* the uris that have cached settings
  handlers,         \* the handlers dispatched so far, in arrival order
  published,        \* uri -> whether diagnostics were sent for it, and the last ones
  newOpens,         \* uri -> notifyNewFileOpened calls since its last close
  lastEvent,        \* the notification or request received last
  nEvents,          \* notifications and requests received
  hasConfigurationCapability,   \* the client supports workspace/configuration
  hasWorkspaceFolderCapability, \* the client supports workspace folders
  hasDiagnosticRelatedInformationCapability,
  globalSettings,   \* the settings used without workspace/configuration
  initializeResult  \* the answer to initialize, once it was given

(* What onInitialize and onDidChangeConfiguration write. *)
config == <<hasConfigurationCapability, hasWorkspaceFolderCapability,
            hasDiagnosticRelatedInformationCapability, globalSettings,
            initializeResult>>

vars == <<documents, docObjs, files, fileObjs, documentSettings, handlers,
          published, newOpens, lastEvent, nEvents, config>>

(* const defaultSettings: ExampleSettings = { maxNumberOfProblems: 1000 } *)
defaultSettings == [maxNumberOfProblems |-> 1000]

Init ==
  /\ documents = [u \in Uris |-> undefined]
  /\ docObjs = <<>>
  /\ files = [p \in Paths |-> undefined]
  /\ fileObjs = <<>>
  /\ documentSettings = {}
  /\ handlers = <<>>
  /\ published = [u \in Uris |-> [sent |-> FALSE, diagnostics |-> <<>>]]
  /\ newOpens = [u \in Uris |-> 0]
  /\ lastEvent = [method |-> "initialized", uri |-> <<>>, hadFile |-> FALSE]
  /\ nEvents = 0
  /\ hasConfigurationCapability = FALSE
  /\ hasWorkspaceFolderCapability = FALSE
  /\ hasDiagnosticRelatedInformationCapability = FALSE
  /\ globalSettings = defaultSettings
  /\ initializeResult = <<>>

(* What is remembered of a received message: its method, its uri, and      *)
(* whether the engine held a handle for the uri when it arrived.           *)
Event(method, u) ==
  [method |-> method, uri |-> u, hadFile |-> files[uriToPath(u)] # undefined]

(* The value of a handler's result while it has not replied. *)
pending == [status |-> "pending", edits |-> <<>>, getFormattedCalls |-> 0]

(***************************************************************************)
(* documents.onDidChangeContent                                            *)
(***************************************************************************)
(* The handler up to its first await: solutionManager.getFile is called    *)
(* with the path of the document and the handler suspends.                 *)
ChangeContentHandler(u, doc) ==
  [kind |-> "changeContent", uri |-> u, document |-> doc,
   solutionFile |-> files[uriToPath(u)], pc |-> "getFile",
   calls |-> <<>>, sent |-> 0, result |-> pending]

(* The editor opens a document: the store creates its object and fires     *)
(* the content-change event.                                               *)
DidOpen(u, text) ==
  /\ nEvents < MaxEvents
  /\ documents[u] = undefined
  /\ docObjs' = Append(docObjs, [uri |-> u, text |-> text])
  /\ documents' = [documents EXCEPT ![u] = Len(docObjs) + 1]
  /\ handlers' = Append(handlers, ChangeContentHandler(u, Len(docObjs) + 1))
  /\ lastEvent' = Event("didOpen", u)
  /\ nEvents' = nEvents + 1
  /\ UNCHANGED <<files, fileObjs, documentSettings, published, newOpens>>
  /\ UNCHANGED config

(* The editor edits an open document: the store updates the object in      *)
(* place and fires the content-change event with the same object.          *)
DidChange(u, text) ==
  /\ nEvents < MaxEvents
  /\ documents[u] # undefined
  /\ docObjs' = [docObjs EXCEPT ![documents[u]].text = text]
  /\ handlers' = Append(handlers, ChangeContentHandler(u, documents[u]))
  /\ lastEvent' = Event("didChange", u)
  /\ nEvents' = nEvents + 1
  /\ UNCHANGED <<documents, files, fileObjs, documentSettings, published, newOpens>>
  /\ UNCHANGED config

(* The handler with the else of its branch lost: a file that was found to  *)
(* be new is opened and then changed.                                      *)
notifyCallsWithoutElse(solutionFile, path, text) ==
  (IF solutionFile = undefined
     THEN <<[op |-> "notifyNewFileOpened", path |-> path, text |-> text]>>
     ELSE <<>>)
  \o <<[op |-> "notifyFileChanged", path |-> path, text |-> text]>>

(* The engine call the handler makes once the lookup has returned. *)
(* The handler that does not notify the engine at all. *)
notifyCallsNone(solutionFile, path, text) == <<>>

notifyCalls(solutionFile, path, text) ==
  IF solutionFile = undefined
    THEN <<[op |-> "notifyNewFileOpened", path |-> path, text |-> text]>>
    ELSE <<[op |-> "notifyFileChanged", path |-> path, text |-> text]>>

(* The engine after the calls: a new file gets a new handle object under   *)
(* its path, a changed file has the handle under its path re-analysed.     *)
RECURSIVE engineAfter(_, _, _)
engineAfter(calls, fs, objs) ==
  IF calls = <<>> THEN [files |-> fs, fileObjs |-> objs]
  ELSE LET c == Head(calls) IN
    IF c.op = "notifyNewFileOpened"
      THEN engineAfter(Tail(calls),
                       [fs EXCEPT ![c.path] = Len(objs) + 1],
                       Append(objs, SolutionFile(c.path, c.text)))
      ELSE engineAfter(Tail(calls), fs,
                       IF fs[c.path] = undefined THEN objs
                       ELSE [objs EXCEPT ![fs[c.path]] = SolutionFile(c.path, c.text)])

(* The number of notifyNewFileOpened calls among `calls`. *)
opens(calls) == Len(SelectSeq(calls, LAMBDA c : c.op = "notifyNewFileOpened"))

(* The lookup has returned: the handler notifies the engine of the         *)
(* document's text and suspends again.  `rejects` is whether the engine    *)
(* rejects a change of a path it holds no handle for.                      *)
ChangeContentNotify(i, rejects) ==
  LET h == handlers[i]
      path == uriToPath(docObjs[h.document].uri)
      calls == notifyCalls(h.solutionFile, path, docObjs[h.document].text)
      after == engineAfter(calls, files, fileObjs)
      noFile == h.solutionFile # undefined /\ files[path] = undefined
  IN
  /\ h.kind = "changeContent"
  /\ h.pc = "getFile"
  /\ rejects => noFile
  /\ files' = after.files
  /\ fileObjs' = after.fileObjs
  /\ newOpens' = [newOpens EXCEPT ![h.uri] = @ + opens(calls)]
  /\ handlers' = [handlers EXCEPT ![i].calls = calls,
                                  ![i].pc = IF rejects THEN "failed" ELSE "notify"]
  /\ UNCHANGED <<documents, docObjs, documentSettings, published, lastEvent, nEvents>>
  /\ UNCHANGED config

(* The loop over the errors stopping one error early. *)
diagnosticsOfAllButLast(errors, text) ==
  [k \in 1..Max(Len(errors) - 1, 0) |->
     [severity |-> "Error",
      range |-> [start |-> positionAt(text, errors[k].char),
                 end |-> positionAt(text, errors[k].char)],
      message |-> errors[k].message,
      source |-> "openscad-language-support"]]

(* One diagnostic per error of the handle, at the position of its offset. *)
RECURSIVE diagnosticsOf(_, _)
diagnosticsOf(errors, text) ==
  IF errors = <<>> THEN <<>>
  ELSE <<[severity |-> "Error",
          range |-> [start |-> positionAt(text, Head(errors).char),
                     end |-> positionAt(text, Head(errors).char)],
          message |-> Head(errors).message,
          source |-> "openscad-language-support"]>>
       \o diagnosticsOf(Tail(errors), text)

(* The engine call has returned: when the lookup had found a handle, the   *)
(* handler sends that handle's errors as the diagnostics of the document.  *)
ChangeContentPublish(i) ==
  LET h == handlers[i] IN
  /\ h.kind = "changeContent"
  /\ h.pc = "notify"
  /\ IF h.solutionFile # undefined
       THEN /\ published' = [published EXCEPT ![docObjs[h.document].uri] =
                 [sent |-> TRUE,
                  diagnostics |-> diagnosticsOf(fileObjs[h.solutionFile].errors,
                                                docObjs[h.document].text)]]
            /\ handlers' = [handlers EXCEPT ![i].pc = "done", ![i].sent = @ + 1]
       ELSE /\ published' = published
            /\ handlers' = [handlers EXCEPT ![i].pc = "done"]
  /\ UNCHANGED <<documents, docObjs, files, fileObjs, documentSettings,
                 newOpens, lastEvent, nEvents>>
  /\ UNCHANGED config

(***************************************************************************)
(* documents.onDidClose                                                    *)
(***************************************************************************)
(* The close handler that leaves the cache as it is. *)
settingsAfterCloseKept(settings, u) == settings

(* documentSettings.delete(uri) *)
settingsAfterClose(settings, u) == settings \ {u}

(* The close handler forgetting every file of the engine. *)
filesAfterCloseOfAll(fs, u) == [p \in DOMAIN fs |-> undefined]

(* The close handler that only drops the settings, as server.js does. *)
filesAfterCloseKept(fs, u) == fs

(* solutionManager.notifyFileClosed(uriToPath(uri)) *)
filesAfterClose(fs, u) == [fs EXCEPT ![uriToPath(u)] = undefined]

(* The editor closes an open document: the store drops it and fires the    *)
(* close event, whose handler runs to its end.                             *)
DidClose(u) ==
  /\ nEvents < MaxEvents
  /\ documents[u] # undefined
  /\ documents' = [documents EXCEPT ![u] = undefined]
  /\ documentSettings' = settingsAfterClose(documentSettings, u)
  /\ files' = filesAfterClose(files, u)
  /\ newOpens' = [newOpens EXCEPT ![u] = 0]
  /\ lastEvent' = Event("didClose", u)
  /\ nEvents' = nEvents + 1
  /\ UNCHANGED <<docObjs, fileObjs, handlers, published>>
  /\ UNCHANGED config

(* A close of a uri the store does not hold: there is no document to put   *)
(* in the close event, and the handler does not run.                       *)
DidCloseNotOpen(u) ==
  /\ nEvents < MaxEvents
  /\ documents[u] = undefined
  /\ lastEvent' = Event("didCloseNotOpen", u)
  /\ nEvents' = nEvents + 1
  /\ UNCHANGED <<documents, docObjs, files, fileObjs, documentSettings,
                 handlers, published, newOpens>>
  /\ UNCHANGED config

(***************************************************************************)
(* connection.onDocumentFormatting                                         *)
(***************************************************************************)
(* The handler up to its await: solutionManager.getFile is called with the *)
(* path of the request's uri and the handler suspends.                     *)
FormattingHandler(u) ==
  [kind |-> "formatting", uri |-> u, document |-> undefined,
   solutionFile |-> files[uriToPath(u)], pc |-> "getFile",
   calls |-> <<>>, sent |-> 0, result |-> pending]

DocumentFormatting(u) ==
  /\ nEvents < MaxEvents
  /\ handlers' = Append(handlers, FormattingHandler(u))
  /\ lastEvent' = Event("formatting", u)
  /\ nEvents' = nEvents + 1
  /\ UNCHANGED <<documents, docObjs, files, fileObjs, documentSettings,
                 published, newOpens>>
  /\ UNCHANGED config

(* The edit whose end is taken from the text the engine holds. *)
wholeDocumentEditOfFileText(f, text) ==
  [range |-> [start |-> [line |-> 0, character |-> 0],
              end |-> positionAt(fileObjs[f].text, Len(fileObjs[f].text))],
   newText |-> getFormatted(fileObjs[f])]

(* The edit that replaces the whole of `text` by the reprint of handle f. *)
wholeDocumentEdit(f, text) ==
  [range |-> [start |-> [line |-> 0, character |-> 0],
              end |-> positionAt(text, Len(text))],
   newText |-> getFormatted(fileObjs[f])]

(* The handler without its check of the handle's errors. *)
formattingResultUnchecked(f, document) ==
  IF f = undefined
    THEN [status |-> "No file!", edits |-> <<>>, getFormattedCalls |-> 0]
  ELSE IF document = undefined
    THEN [status |-> "No document!", edits |-> <<>>, getFormattedCalls |-> 0]
  ELSE [status |-> "returned",
        edits |-> <<[range |-> [start |-> [line |-> 0, character |-> 0],
                                end |-> positionAt(docObjs[document].text,
                                                   Len(docObjs[document].text))],
                     newText |-> getFormatted(fileObjs[f])]>>,
        getFormattedCalls |-> 1]

(* What the handler answers once the lookup has returned handle f (or      *)
(* undefined) and the store holds `document` (or undefined) for the uri.   *)
formattingResult(f, document) ==
  IF f = undefined
    THEN [status |-> "No file!", edits |-> <<>>, getFormattedCalls |-> 0]
  ELSE IF Len(fileObjs[f].errors) > 0
    THEN [status |-> "returned", edits |-> <<>>, getFormattedCalls |-> 0]
  ELSE IF document = undefined
    THEN [status |-> "No document!", edits |-> <<>>, getFormattedCalls |-> 0]
  ELSE [status |-> "returned",
        edits |-> <<wholeDocumentEdit(f, docObjs[document].text)>>,
        getFormattedCalls |-> 1]

FormattingReply(i) ==
  LET h == handlers[i] IN
  /\ h.kind = "formatting"
  /\ h.pc = "getFile"
  /\ handlers' = [handlers EXCEPT
        ![i].result = formattingResult(h.solutionFile, documents[h.uri]),
        ![i].pc = "done"]
  /\ UNCHANGED <<documents, docObjs, files, fileObjs, documentSettings,
                 published, newOpens, lastEvent, nEvents>>
  /\ UNCHANGED config

(***************************************************************************)
(* The position translator (posToCodeLocation, and the same loop in        *)
(* onCompletion and onDefinition)                                          *)
(***************************************************************************)
(* The loop that stops at the last line terminator without counting it. *)
RECURSIVE charsBeforeTheLineBeforeTerminator(_, _, _)
charsBeforeTheLineBeforeTerminator(text, chars, linesToGo) ==
  IF linesToGo # 0 /\ chars < Len(text)
    THEN (IF text[chars + 1] = "\n" /\ linesToGo - 1 = 0
            THEN chars
            ELSE charsBeforeTheLineBeforeTerminator(text, chars + 1,
                   IF text[chars + 1] = "\n" THEN linesToGo - 1 ELSE linesToGo))
    ELSE chars

(* The while loop: characters are counted from the start of the text until *)
(* linesToGo line terminators have been passed or the text has ended.      *)
RECURSIVE charsBeforeTheLine(_, _, _)
charsBeforeTheLine(text, chars, linesToGo) ==
  IF linesToGo # 0 /\ chars < Len(text)
    THEN charsBeforeTheLine(text, chars + 1,
                            IF text[chars + 1] = "\n" THEN linesToGo - 1
                                                      ELSE linesToGo)
    ELSE chars

(* The offset without the clamp. *)
fullOffsetUnclamped(text, position) ==
  charsBeforeTheLine(text, 0, position.line) + position.character

(* The offset of the start of the line, the character left out. *)
fullOffsetOfLineStart(text, position) ==
  LET sum == charsBeforeTheLine(text, 0, position.line)
  IN  IF sum >= Len(text)
        THEN (IF Len(text) > 0 THEN Len(text) - 1 ELSE 0)
        ELSE sum

(* The offset given to the engine for (line, character) in text. *)
fullOffset(text, position) ==
  LET sum == charsBeforeTheLine(text, 0, position.line) + position.character
  IN  IF sum >= Len(text)
        THEN (IF Len(text) > 0 THEN Len(text) - 1 ELSE 0)
        ELSE sum

(***************************************************************************)
(* The requests that ask the engine a question                             *)
(***************************************************************************)
(* What a request handler has answered: status is "pending", "returned"    *)
(* or the message of the error the request failed with; value holds what   *)
(* was returned (nothing when null is set); queries counts the calls of    *)
(* the engine's query; offset is the translated position, -1 before it is  *)
(* computed.                                                               *)
Answer(status, value, null, queries, offset) ==
  [status |-> status, value |-> value, null |-> null, queries |-> queries,
   offset |-> offset]

(* A handler that starts with documents.get(uri): without a document it    *)
(* throws at once, otherwise it calls getFile with the document's path and *)
(* suspends.                                                               *)
PositionHandler(kind, u, position) ==
  [kind |-> kind, uri |-> u, document |-> documents[u],
   solutionFile |-> IF documents[u] = undefined THEN undefined
                    ELSE files[uriToPath(docObjs[documents[u]].uri)],
   pc |-> IF documents[u] = undefined THEN "done" ELSE "getFile",
   calls |-> <<>>, sent |-> 0, position |-> position, decl |-> <<>>,
   defLoc |-> <<>>,
   result |-> IF documents[u] = undefined
                THEN Answer("No document!", <<>>, FALSE, 0, -1)
                ELSE Answer("pending", <<>>, FALSE, 0, -1)]

Request(handler, method, u) ==
  /\ nEvents < MaxEvents
  /\ handlers' = Append(handlers, handler)
  /\ lastEvent' = Event(method, u)
  /\ nEvents' = nEvents + 1
  /\ UNCHANGED <<documents, docObjs, files, fileObjs, documentSettings,
                 published, newOpens>>
  /\ UNCHANGED config

(* The handler that clears the diagnostics of its uri when it answers. *)
AnsweredPublishing(i, pc, answer) ==
  /\ handlers' = [handlers EXCEPT ![i].result = answer, ![i].pc = pc]
  /\ published' = [published EXCEPT ![handlers[i].uri] =
                     [sent |-> TRUE, diagnostics |-> <<>>]]
  /\ UNCHANGED <<documents, docObjs, files, fileObjs, documentSettings,
                 newOpens, lastEvent, nEvents>>
  /\ UNCHANGED config

(* Handler i ends, or goes on to its next await, with this answer. *)
Answered(i, pc, answer) ==
  /\ handlers' = [handlers EXCEPT ![i].result = answer, ![i].pc = pc]
  /\ UNCHANGED <<documents, docObjs, files, fileObjs, documentSettings,
                 published, newOpens, lastEvent, nEvents>>
  /\ UNCHANGED config

(* Whether the handle a lookup returned is missing or has no syntax tree. *)
noAst(f) == f = undefined \/ ~fileObjs[f].ast

(***************************************************************************)
(* connection.onCompletion                                                 *)
(***************************************************************************)
(* What the engine may answer a completion query with: candidates with a   *)
(* name, a type and, for some, the declaration they come from.             *)
noDecl == [signature |-> "", docComment |-> <<>>]

(* A link as new URL(link) sees it: whether it can be parsed, and then its *)
(* hostname and pathname, each cut into the pieces that endsWith and       *)
(* startsWith tell apart.                                                  *)
Link(name, wellFormed, hostname, pathname) ==
  [name |-> name, wellFormed |-> wellFormed, hostname |-> hostname,
   pathname |-> pathname]

WikipediaLink == Link("w", TRUE, <<"en.", "wikipedia.org">>, <<"/wiki/Cube">>)

ManualLink ==
  Link("u", TRUE, <<"en.", "wikibooks.org">>,
       <<"/wiki/OpenSCAD_User_Manual", "/Transformations">>)

WikibooksLink == Link("b", TRUE, <<"en.", "wikibooks.org">>, <<"/wiki/Cookbook">>)

OtherLink == Link("o", TRUE, <<"example.com">>, <<"/">>)

MalformedLink == Link("not a url", FALSE, <<>>, <<>>)

(* The annotations of a doc comment: of parameters, of cross-references,   *)
(* and of some other class.                                                *)
ParamAnnotation(name) ==
  [class |-> "ParamAnnotation", link |-> Link(name, FALSE, <<>>, <<>>)]

SeeAnnotation(link) == [class |-> "SeeAnnotation", link |-> link]

OtherAnnotation == [class |-> "Annotation", link |-> Link("r", FALSE, <<>>, <<>>)]

(* Declarations, one of them with a doc comment. *)
Declarations ==
  { [signature |-> "module m()", docComment |-> <<>>],
    [signature |-> "function f()",
     docComment |-> <<[documentationContent |-> "Makes f.",
                       annotations |-> <<ParamAnnotation("p"),
                                         SeeAnnotation(WikipediaLink)>>]>>] }

CompletionLists ==
  { <<>>,
    <<[name |-> "f", type |-> "FUNCTION",
       decl |-> [signature |-> "function f()", docComment |-> <<>>]],
      [name |-> "for", type |-> "KEYWORD", decl |-> noDecl],
      [name |-> "m", type |-> "MODULE",
       decl |-> [signature |-> "module m()", docComment |-> <<>>]]>>,
    <<[name |-> "v", type |-> "VARIABLE", decl |-> noDecl],
      [name |-> "lib", type |-> "DIRECTORY", decl |-> noDecl],
      [name |-> "a.scad", type |-> "FILE", decl |-> noDecl],
      [name |-> "n", type |-> "FILE_EXTENSION", decl |-> noDecl]>> }

(***************************************************************************)
(* declToMarkupDocs                                                        *)
(***************************************************************************)
(* The markdown is a sequence of pieces, each of one form and made of one  *)
(* name: the text that is around the name is left out.                     *)
Piece(piece, of) == [piece |-> piece, of |-> of]

endsWith(pieces, suffix) == pieces # <<>> /\ pieces[Len(pieces)] = suffix

startsWith(pieces, prefix) == pieces # <<>> /\ Head(pieces) = prefix

(* The section with its heading even when there is no parameter. *)
parametersSectionAlways(paramAnnotations) ==
  <<Piece("Parameters:", "")>>
  \o [k \in 1..Len(paramAnnotations) |-> Piece("bullet", paramAnnotations[k].link.name)]

(* "Parameters:" and a bullet per parameter annotation, when there is one. *)
parametersSection(paramAnnotations) ==
  IF Len(paramAnnotations) > 0
    THEN <<Piece("Parameters:", "")>>
         \o [k \in 1..Len(paramAnnotations) |->
               Piece("bullet", paramAnnotations[k].link.name)]
    ELSE <<>>

(* The line of one cross-reference: new URL(link) throws on a link that is *)
(* not well formed, and the catch writes the link as it is.                *)
seeAlsoLine(seeAnnotation) ==
  LET url == seeAnnotation.link IN
  IF ~url.wellFormed THEN Piece("See also, as text", url.name)
  ELSE IF endsWith(url.hostname, "wikipedia.org")
    THEN Piece("See more on Wikipedia", url.name)
  ELSE IF /\ endsWith(url.hostname, "wikibooks.org")
          /\ startsWith(url.pathname, "/wiki/OpenSCAD_User_Manual")
    THEN Piece("See more on the OpenSCAD User Manual", url.name)
  ELSE Piece("See also, as link", url.name)

(* The loop that ends at the first link that is not well formed. *)
RECURSIVE seeAlsoLinesUntilMalformed(_)
seeAlsoLinesUntilMalformed(seeAnnotations) ==
  IF seeAnnotations = <<>> \/ ~Head(seeAnnotations).link.wellFormed THEN <<>>
  ELSE <<seeAlsoLine(Head(seeAnnotations))>>
       \o seeAlsoLinesUntilMalformed(Tail(seeAnnotations))

(* for (let seeAnnotation of seeAnnotations) *)
RECURSIVE seeAlsoLines(_)
seeAlsoLines(seeAnnotations) ==
  IF seeAnnotations = <<>> THEN <<>>
  ELSE <<seeAlsoLine(Head(seeAnnotations))>> \o seeAlsoLines(Tail(seeAnnotations))

(* The markdown of a declaration: its signature in a scad code fence and a *)
(* rule, then what its doc comment gives.                                  *)
declToMarkupDocs(decl) ==
  [kind |-> "markdown",
   value |->
     <<Piece("signature", decl.signature)>>
     \o (IF decl.docComment = <<>> THEN <<>>
         ELSE LET docComment == decl.docComment[1] IN
              <<Piece("text", docComment.documentationContent)>>
              \o parametersSection(SelectSeq(docComment.annotations,
                     LAMBDA a : a.class = "ParamAnnotation"))
              \o seeAlsoLines(SelectSeq(docComment.annotations,
                     LAMBDA a : a.class = "SeeAnnotation")))]

(* The variable docs before it is assigned. *)
noDocs == [kind |-> "undefined", value |-> <<>>]

(* The switch on the candidate's type. *)
completionItemKind(type) ==
  CASE type = "FUNCTION" -> "Function"
    [] type = "MODULE" -> "Module"
    [] type = "VARIABLE" -> "Variable"
    [] type = "KEYWORD" -> "Keyword"
    [] type = "DIRECTORY" -> "Folder"
    [] type = "FILE" -> "File"
    [] OTHER -> "Text"

(* The map that numbers the items from zero. *)
RECURSIVE completionItemsDataFromZero(_, _, _)
completionItemsDataFromZero(symbols, i, docs) ==
  IF i > Len(symbols) THEN <<>>
  ELSE <<[label |-> symbols[i].name, documentation |-> docs,
          kind |-> completionItemKind(symbols[i].type), data |-> i - 1]>>
       \o completionItemsDataFromZero(symbols, i + 1, docs)

(* symbols.map((s, i) => ...) from candidate i on (counted from 1), docs    *)
(* being the variable that is declared outside the callback.               *)
RECURSIVE completionItems(_, _, _)
completionItems(symbols, i, docs) ==
  IF i > Len(symbols) THEN <<>>
  ELSE LET s == symbols[i]
           d == IF s.type \in {"FUNCTION", "MODULE", "VARIABLE"} /\ s.decl # noDecl
                  THEN declToMarkupDocs(s.decl)
                  ELSE docs
       IN  <<[label |-> s.name, documentation |-> d,
              kind |-> completionItemKind(s.type), data |-> (i - 1) + 1]>>
           \o completionItems(symbols, i + 1, d)

Completion(u, position) ==
  Request(PositionHandler("completion", u, position), "completion", u)

(* The handler that asks the engine whenever there is a handle. *)
completionLookedUpQuerying(h) ==
  IF h.solutionFile = undefined
    THEN [pc |-> "done", answer |-> Answer("returned", <<>>, FALSE, 0, -1)]
    ELSE [pc |-> "getCompletionsAtLocation",
          answer |-> Answer("pending", <<>>, FALSE, 1,
                            fullOffset(docObjs[h.document].text, h.position))]

(* What the handler does once the lookup has returned: without a handle or *)
(* a syntax tree it returns the empty list, otherwise it translates the    *)
(* position and asks the engine for the candidates.                        *)
completionLookedUp(h) ==
  IF noAst(h.solutionFile)
    THEN [pc |-> "done", answer |-> Answer("returned", <<>>, FALSE, 0, -1)]
    ELSE [pc |-> "getCompletionsAtLocation",
          answer |-> Answer("pending", <<>>, FALSE, 1,
                            fullOffset(docObjs[h.document].text, h.position))]

CompletionLookedUp(i) ==
  /\ handlers[i].kind = "completion"
  /\ handlers[i].pc = "getFile"
  /\ Answered(i, completionLookedUp(handlers[i]).pc,
              completionLookedUp(handlers[i]).answer)

(* The engine has answered with its candidates: they are mapped to items. *)
CompletionReply(i, symbols) ==
  /\ handlers[i].kind = "completion"
  /\ handlers[i].pc = "getCompletionsAtLocation"
  /\ Answered(i, "done",
              Answer("returned", completionItems(symbols, 1, noDocs), FALSE,
                     handlers[i].result.queries, handlers[i].result.offset))

(***************************************************************************)
(* connection.onDefinition                                                 *)
(***************************************************************************)
(* What the engine may answer getSymbolDeclarationLocation with: nothing,  *)
(* a location without a file, or a location in a file.  An optional value  *)
(* is a sequence of at most one element.                                   *)
DeclarationLocations ==
  { <<>>,
    <<[file |-> <<>>, line |-> 1, col |-> 0]>>,
    <<[file |-> <<[path |-> <<"/a.scad">>]>>, line |-> 1, col |-> 0]>>,
    <<[file |-> <<[path |-> <<"/lib.scad">>]>>, line |-> 0, col |-> 1]>> }

Definition(u, position) ==
  Request(PositionHandler("definition", u, position), "definition", u)

(* The location with line and column taken for each other. *)
locationOfSwapped(defLoc) ==
  [uri |-> pathToUri(defLoc.file[1].path),
   range |-> [start |-> [line |-> defLoc.col, character |-> defLoc.line],
              end |-> [line |-> defLoc.col, character |-> defLoc.line]]]

(* Location.create(pathToUri(path), Range(Position, Position)). *)
locationOf(defLoc) ==
  [uri |-> pathToUri(defLoc.file[1].path),
   range |-> [start |-> [line |-> defLoc.line, character |-> defLoc.col],
              end |-> [line |-> defLoc.line, character |-> defLoc.col]]]

(* The handler that answers null whenever it has no location to give. *)
definitionResultOrNull(h, defLoc) ==
  IF noAst(h.solutionFile) \/ defLoc = <<>> \/ defLoc[1].file = <<>>
    THEN Answer("returned", <<>>, TRUE, 0, -1)
    ELSE Answer("returned", <<locationOf(defLoc[1])>>, FALSE, 1,
                fullOffset(docObjs[h.document].text, h.position))

(* What the handler answers once the lookup has returned, defLoc being the *)
(* engine's answer to the query it makes when there is a syntax tree.      *)
definitionResult(h, defLoc) ==
  IF noAst(h.solutionFile)
    THEN Answer("File not opened.", <<>>, FALSE, 0, -1)
  ELSE IF defLoc = <<>> \/ defLoc[1].file = <<>>
    THEN Answer("returned", <<>>, TRUE, 1,
                fullOffset(docObjs[h.document].text, h.position))
  ELSE Answer("returned", <<locationOf(defLoc[1])>>, FALSE, 1,
              fullOffset(docObjs[h.document].text, h.position))

(* The handler keeps the location the engine gave it in defLoc. *)
DefinitionReply(i, defLoc) ==
  /\ handlers[i].kind = "definition"
  /\ handlers[i].pc = "getFile"
  /\ handlers' = [handlers EXCEPT
        ![i].result = definitionResult(handlers[i], defLoc),
        ![i].defLoc = IF noAst(handlers[i].solutionFile) THEN <<>> ELSE defLoc,
        ![i].pc = "done"]
  /\ UNCHANGED <<documents, docObjs, files, fileObjs, documentSettings,
                 published, newOpens, lastEvent, nEvents>>
  /\ UNCHANGED config

(***************************************************************************)
(* connection.onHover                                                      *)
(***************************************************************************)
(* Hover contents given as a plain string. *)
plainText(string) == [kind |-> "string", value |-> <<Piece("string", string)>>]

Hover(u, position) ==
  Request(PositionHandler("hover", u, position), "hover", u)

(* The handler that fails when no declaration is found. *)
hoverResultFailingWhenUnknown(h, decl) ==
  IF noAst(h.solutionFile)
    THEN Answer("no ast", <<>>, FALSE, 0, -1)
  ELSE IF decl = <<>>
    THEN Answer("No declaration!", <<>>, FALSE, 1,
                fullOffset(docObjs[h.document].text, h.position))
  ELSE Answer("returned", <<[contents |-> declToMarkupDocs(decl[1])]>>, FALSE, 1,
              fullOffset(docObjs[h.document].text, h.position))

(* What the handler answers once posToCodeLocation's lookup has returned,  *)
(* decl being the engine's answer to getSymbolDeclaration (an optional).   *)
hoverResult(h, decl) ==
  IF noAst(h.solutionFile)
    THEN Answer("no ast", <<>>, FALSE, 0, -1)
  ELSE IF decl = <<>>
    THEN Answer("returned", <<[contents |-> plainText("<unknown>")]>>, FALSE, 1,
                fullOffset(docObjs[h.document].text, h.position))
  ELSE Answer("returned", <<[contents |-> declToMarkupDocs(decl[1])]>>, FALSE, 1,
              fullOffset(docObjs[h.document].text, h.position))

(* The handler keeps the declaration the engine gave it in decl. *)
HoverReply(i, decl) ==
  /\ handlers[i].kind = "hover"
  /\ handlers[i].pc = "getFile"
  /\ handlers' = [handlers EXCEPT
        ![i].result = hoverResult(handlers[i], decl),
        ![i].decl = IF noAst(handlers[i].solutionFile) THEN <<>> ELSE decl,
        ![i].pc = "done"]
  /\ UNCHANGED <<documents, docObjs, files, fileObjs, documentSettings,
                 published, newOpens, lastEvent, nEvents>>
  /\ UNCHANGED config

(***************************************************************************)
(* connection.onCompletionResolve                                          *)
(***************************************************************************)
(* The items a client may ask to resolve. *)
ResolveItems ==
  [label : {"f", "m"}, kind : {"Function", "Module", "Text"}, data : 0..3,
   detail : {<<>>},
   documentation : {noDocs, declToMarkupDocs([signature |-> "function f()",
                                              docComment |-> <<>>])}]

(* The handler that describes every item as a module. *)
completionResolveAlwaysModule(item) ==
  [item EXCEPT !.detail = <<"module">>, !.documentation = plainText("A module")]

(* The item after the handler. *)
completionResolve(item) ==
  IF item.data = 1
    THEN [item EXCEPT !.detail = <<"module">>,
                      !.documentation = plainText("A module")]
  ELSE IF item.data = 2
    THEN [item EXCEPT !.detail = <<"function">>,
                      !.documentation = plainText("A function")]
  ELSE item

CompletionResolve(item) ==
  /\ nEvents < MaxEvents
  /\ handlers' = Append(handlers,
       [kind |-> "completionResolve", uri |-> <<>>, document |-> undefined,
        solutionFile |-> undefined, pc |-> "done", calls |-> <<>>, sent |-> 0,
        item |-> item,
        result |-> Answer("returned", <<completionResolve(item)>>, FALSE, 0, -1)])
  /\ lastEvent' = [method |-> "completionResolve", uri |-> <<>>, hadFile |-> FALSE]
  /\ nEvents' = nEvents + 1
  /\ UNCHANGED <<documents, docObjs, files, fileObjs, documentSettings,
                 published, newOpens>>
  /\ UNCHANGED config

(***************************************************************************)
(* connection.onDocumentSymbol                                             *)
(***************************************************************************)
(* What the engine's getSymbols may walk over: declarations with a name, a *)
(* kind, the range of the whole declaration, the range of its name, and    *)
(* the declarations nested in it.  A range is <<start, end>> in offsets.   *)
Leaf(name, kind, fullRange, nameRange) ==
  [name |-> name, kind |-> kind, fullRange |-> fullRange,
   nameRange |-> nameRange, children |-> <<>>]

SymbolTrees ==
  { <<>>,
    <<Leaf("v", "VARIABLE", <<0, 3>>, <<0, 1>>)>>,
    <<[name |-> "m", kind |-> "MODULE", fullRange |-> <<0, 9>>,
       nameRange |-> <<7, 8>>,
       children |-> <<Leaf("f", "FUNCTION", <<3, 6>>, <<4, 5>>),
                      Leaf("w", "VARIABLE", <<6, 8>>, <<6, 7>>)>>]>> }

(* The handler up to its await: getFile is called with the path of the     *)
(* request's uri; the document store is not consulted.                     *)
SymbolHandler(u) ==
  [kind |-> "documentSymbol", uri |-> u, document |-> undefined,
   solutionFile |-> files[uriToPath(u)], pc |-> "getFile",
   calls |-> <<>>, sent |-> 0, position |-> [line |-> 0, character |-> 0],
   result |-> Answer("pending", <<>>, FALSE, 0, -1)]

DocumentSymbol(u) == Request(SymbolHandler(u), "documentSymbol", u)

(* The switch on the declaration's kind. *)
symbolKind(kind) ==
  CASE kind = "FUNCTION" -> "Function"
    [] kind = "MODULE" -> "Module"
    [] kind = "VARIABLE" -> "Variable"
    [] OTHER -> "undefined"

(* getSymbols with the handler's callback: a node is made of every         *)
(* declaration, from the nodes made of its children.                       *)
RECURSIVE documentSymbols(_)
documentSymbols(symbols) ==
  IF symbols = <<>> THEN <<>>
  ELSE <<[name |-> Head(symbols).name, kind |-> symbolKind(Head(symbols).kind),
          range |-> Head(symbols).fullRange,
          selectionRange |-> Head(symbols).nameRange,
          children |-> documentSymbols(Head(symbols).children)]>>
       \o documentSymbols(Tail(symbols))

(* The handler that answers an empty tree when there is no handle. *)
documentSymbolResultEmptyWithoutFile(f, symbols) ==
  IF f = undefined
    THEN Answer("returned", <<>>, FALSE, 0, -1)
    ELSE Answer("returned", documentSymbols(symbols), FALSE, 1, -1)

(* What the handler answers once the lookup has returned handle f (or      *)
(* undefined), symbols being what the engine walks over.                   *)
documentSymbolResult(f, symbols) ==
  IF f = undefined
    THEN Answer("No file!", <<>>, FALSE, 0, -1)
    ELSE Answer("returned", documentSymbols(symbols), FALSE, 1, -1)

DocumentSymbolReply(i, symbols) ==
  /\ handlers[i].kind = "documentSymbol"
  /\ handlers[i].pc = "getFile"
  /\ Answered(i, "done", documentSymbolResult(handlers[i].solutionFile, symbols))

Next ==
  \/ \E u \in Uris, text \in Texts : DidOpen(u, text)
  \/ \E u \in Uris, text \in Texts : DidChange(u, text)
  \/ \E u \in Uris : DidClose(u)
  \/ \E u \in Uris : DidCloseNotOpen(u)
  \/ \E i \in 1..Len(handlers), rejects \in BOOLEAN : ChangeContentNotify(i, rejects)
  \/ \E i \in 1..Len(handlers) : ChangeContentPublish(i)
  \/ \E u \in Uris : DocumentFormatting(u)
  \/ \E i \in 1..Len(handlers) : FormattingReply(i)

Spec == Init /\ [][Next]_vars

(***************************************************************************)
(* The server with one document and the requests that ask the engine a     *)
(* question                                                                *)
(***************************************************************************)
(* At most this many requests are made in a run. *)
MaxRequests == 1

QueryUri == <<"file://", "/a.scad">>

(* The texts of the document: without an error, with one, and one that the *)
(* engine cannot lex.                                                      *)
QueryTexts == {<<"a", "\n", "a">>, <<"a", "\n", "x">>, <<"?">>}

Positions ==
  {[line |-> 0, character |-> 0], [line |-> 1, character |-> 1]}

Requests == {i \in 1..Len(handlers) : handlers[i].kind # "changeContent"}

QNext ==
  \/ \E text \in QueryTexts : DidOpen(QueryUri, text)
  \/ \E text \in QueryTexts : DidChange(QueryUri, text)
  \/ DidClose(QueryUri)
  \/ DidCloseNotOpen(QueryUri)
  \/ \E i \in 1..Len(handlers), rejects \in BOOLEAN : ChangeContentNotify(i, rejects)
  \/ \E i \in 1..Len(handlers) : ChangeContentPublish(i)
  \/ \E position \in Positions :
       Cardinality(Requests) < MaxRequests /\ Completion(QueryUri, position)
  \/ \E i \in 1..Len(handlers) : CompletionLookedUp(i)
  \/ \E i \in 1..Len(handlers), symbols \in CompletionLists : CompletionReply(i, symbols)
  \/ \E position \in Positions :
       Cardinality(Requests) < MaxRequests /\ Definition(QueryUri, position)
  \/ \E i \in 1..Len(handlers), defLoc \in DeclarationLocations : DefinitionReply(i, defLoc)
  \/ \E position \in Positions :
       Cardinality(Requests) < MaxRequests /\ Hover(QueryUri, position)
  \/ \E i \in 1..Len(handlers), decl \in {<<>>} \cup {<<d>> : d \in Declarations} :
       HoverReply(i, decl)
  \/ Cardinality(Requests) < MaxRequests /\ DocumentSymbol(QueryUri)
  \/ \E i \in 1..Len(handlers), symbols \in SymbolTrees : DocumentSymbolReply(i, symbols)
  \/ Cardinality(Requests) < MaxRequests /\ DocumentFormatting(QueryUri)
  \/ \E i \in 1..Len(handlers) : FormattingReply(i)

QuerySpec == Init /\ [][QNext]_vars

(***************************************************************************)
(* The position translator on every short text and every position near it  *)
(***************************************************************************)
(* The longest text, and the largest line and character of a position. *)
MaxLen == 3

Chars == {"a", "\n", "\r"}

TranslatorTexts == UNION {[1..n -> Chars] : n \in 0..MaxLen}

TranslatorPositions == [line : 0..MaxLen, character : 0..MaxLen]

(* The document is opened with one of the texts and one request is made:   *)
(* a request changes nothing that a later request reads.                   *)
TNext ==
  \/ \E text \in TranslatorTexts : DidOpen(QueryUri, text)
  \/ \E i \in 1..Len(handlers) : ChangeContentNotify(i, FALSE)
  \/ \E i \in 1..Len(handlers) : ChangeContentPublish(i)
  \/ \E position \in TranslatorPositions :
       Requests = {} /\ Completion(QueryUri, position)
  \/ \E i \in 1..Len(handlers) : CompletionLookedUp(i)
  \/ \E i \in 1..Len(handlers) : CompletionReply(i, <<>>)
  \/ \E position \in TranslatorPositions :
       Requests = {} /\ Definition(QueryUri, position)
  \/ \E i \in 1..Len(handlers) : DefinitionReply(i, <<>>)
  \/ \E position \in TranslatorPositions :
       Requests = {} /\ Hover(QueryUri, position)
  \/ \E i \in 1..Len(handlers) : HoverReply(i, <<>>)

TranslatorSpec == Init /\ [][TNext]_vars

(***************************************************************************)
(* connection.onInitialize and connection.onDidChangeConfiguration         *)
(***************************************************************************)
(* What a client may declare, as far as onInitialize reads it.  An         *)
(* optional member is a sequence of at most one element.                   *)
ClientCapabilities ==
  [workspace : {<<>>} \cup {<<w>> : w \in [configuration : BOOLEAN,
                                          workspaceFolders : BOOLEAN]},
   textDocument : {<<>>, <<[publishDiagnostics |-> <<>>]>>}
                  \cup {<<[publishDiagnostics |-> <<[relatedInformation |-> r]>>]>> :
                          r \in BOOLEAN}]

(* The answer that always carries the workspace-folders capability. *)
initializeResultWithWorkspace(workspaceFolders) ==
  [capabilities |->
     [textDocumentSync |-> "Incremental",
      documentFormattingProvider |-> TRUE,
      documentSymbolProvider |-> TRUE,
      completionProvider |-> [resolveProvider |-> TRUE],
      definitionProvider |-> TRUE,
      hoverProvider |-> TRUE,
      workspace |-> <<[workspaceFolders |-> [supported |-> TRUE]]>>]]

(* The InitializeResult, workspaceFolders being hasWorkspaceFolderCapability. *)
initializeResultOf(workspaceFolders) ==
  [capabilities |->
     [textDocumentSync |-> "Incremental",
      documentFormattingProvider |-> TRUE,
      documentSymbolProvider |-> TRUE,
      completionProvider |-> [resolveProvider |-> TRUE],
      definitionProvider |-> TRUE,
      hoverProvider |-> TRUE,
      workspace |-> IF workspaceFolders
                      THEN <<[workspaceFolders |-> [supported |-> TRUE]]>>
                      ELSE <<>>]]

Initialize(capabilities) ==
  LET workspace == capabilities.workspace
      textDocument == capabilities.textDocument
  IN
  /\ initializeResult = <<>>
  /\ hasConfigurationCapability' =
       (workspace # <<>> /\ workspace[1].configuration)
  /\ hasWorkspaceFolderCapability' =
       (workspace # <<>> /\ workspace[1].workspaceFolders)
  /\ hasDiagnosticRelatedInformationCapability' =
       (/\ textDocument # <<>>
        /\ textDocument[1].publishDiagnostics # <<>>
        /\ textDocument[1].publishDiagnostics[1].relatedInformation)
  /\ initializeResult' =
       <<initializeResultOf(workspace # <<>> /\ workspace[1].workspaceFolders)>>
  /\ lastEvent' = [method |-> "initialize", uri |-> <<>>, hadFile |-> FALSE]
  /\ UNCHANGED <<documents, docObjs, files, fileObjs, documentSettings, handlers,
                 published, newOpens, nEvents, globalSettings>>

(* The settings a configuration change may carry: none at all, an object   *)
(* without the section languageServerExample, or one with it.              *)
ChangedSettings ==
  { <<>>,
    <<[languageServerExample |-> <<>>]>>,
    <<[languageServerExample |-> <<[maxNumberOfProblems |-> 5]>>]>>,
    <<[languageServerExample |-> <<[maxNumberOfProblems |-> 7]>>]>> }

(* change.settings.languageServerExample cannot be read of no settings. *)
configurationThrows(settings) ==
  ~hasConfigurationCapability /\ settings = <<>>

(* globalSettings after the handler. *)
globalSettingsAfter(settings) ==
  IF hasConfigurationCapability \/ settings = <<>> THEN globalSettings
  ELSE IF settings[1].languageServerExample = <<>> THEN defaultSettings
  ELSE settings[1].languageServerExample[1]

(* documentSettings after the handler. *)
documentSettingsAfter(settings) ==
  IF hasConfigurationCapability THEN {} ELSE documentSettings

DidChangeConfiguration(settings) ==
  /\ nEvents < MaxEvents
  /\ globalSettings' = globalSettingsAfter(settings)
  /\ documentSettings' = documentSettingsAfter(settings)
  /\ handlers' = Append(handlers,
       [kind |-> "didChangeConfiguration", uri |-> <<>>, document |-> undefined,
        solutionFile |-> undefined, pc |-> "done", calls |-> <<>>, sent |-> 0,
        result |-> Answer(IF configurationThrows(settings) THEN "TypeError"
                          ELSE "returned", <<>>, FALSE, 0, -1)])
  /\ lastEvent' = [method |-> "didChangeConfiguration", uri |-> <<>>,
                   hadFile |-> FALSE]
  /\ nEvents' = nEvents + 1
  /\ UNCHANGED <<documents, docObjs, files, fileObjs, published, newOpens,
                 hasConfigurationCapability, hasWorkspaceFolderCapability,
                 hasDiagnosticRelatedInformationCapability, initializeResult>>

(* The server with one document after initialize, its configuration        *)
(* changing.                                                               *)
CNext ==
  \/ \E capabilities \in ClientCapabilities : Initialize(capabilities)
  \/ \E settings \in ChangedSettings :
       initializeResult # <<>> /\ DidChangeConfiguration(settings)
  \/ \E text \in QueryTexts : initializeResult # <<>> /\ DidOpen(QueryUri, text)
  \/ \E i \in 1..Len(handlers) : ChangeContentNotify(i, FALSE)
  \/ \E i \in 1..Len(handlers) : ChangeContentPublish(i)
  \/ DidClose(QueryUri)

ConfigSpec == Init /\ [][CNext]_vars

(***************************************************************************)
(* The requests when a lookup or an engine call throws                     *)
(***************************************************************************)
(* Whether handler h, resumed from its lookup, goes on to ask the engine   *)
(* its question.                                                           *)
reachesQuery(h) ==
  CASE h.kind = "completion" -> h.pc = "getCompletionsAtLocation"
    [] h.kind \in {"definition", "hover"} -> ~noAst(h.solutionFile)
    [] h.kind = "documentSymbol" -> h.solutionFile # undefined
    [] h.kind = "formatting" ->
         /\ h.solutionFile # undefined
         /\ fileObjs[h.solutionFile].errors = <<>>
         /\ documents[h.uri] # undefined
    [] OTHER -> FALSE

(* The handler whose catch answers with an empty result. *)
afterThrowSwallowed(h, inQuery) ==
  IF h.kind = "formatting"
    THEN [status |-> "returned", edits |-> <<>>,
          getFormattedCalls |-> IF inQuery THEN 1 ELSE 0]
    ELSE Answer("returned", <<>>, FALSE, IF inQuery THEN 1 ELSE 0, h.result.offset)

(* What the request ends with when the lookup (inQuery false) or the       *)
(* engine's answer to the question (inQuery true) throws: the catch of     *)
(* onCompletion and of onDocumentSymbol logs and throws again, the other   *)
(* handlers have no catch.                                                 *)
afterThrow(h, inQuery) ==
  IF h.kind = "formatting"
    THEN [status |-> "engine error", edits |-> <<>>,
          getFormattedCalls |-> IF inQuery THEN 1 ELSE 0]
    ELSE Answer("engine error", <<>>, FALSE, IF inQuery THEN 1 ELSE 0,
                h.result.offset)

EngineThrows(i, inQuery) ==
  /\ i \in Requests
  /\ handlers[i].pc # "done"
  /\ IF inQuery THEN reachesQuery(handlers[i]) ELSE handlers[i].pc = "getFile"
  /\ handlers' = [handlers EXCEPT ![i].result = afterThrow(handlers[i], inQuery),
                                  ![i].pc = "done"]
  /\ UNCHANGED <<documents, docObjs, files, fileObjs, documentSettings,
                 published, newOpens, lastEvent, nEvents>>
  /\ UNCHANGED config

FNext ==
  \/ \E text \in QueryTexts : DidOpen(QueryUri, text)
  \/ \E i \in 1..Len(handlers) : ChangeContentNotify(i, FALSE)
  \/ \E i \in 1..Len(handlers) : ChangeContentPublish(i)
  \/ DidClose(QueryUri)
  \/ \E position \in Positions :
       Cardinality(Requests) < MaxRequests /\ Completion(QueryUri, position)
  \/ \E i \in 1..Len(handlers) : CompletionLookedUp(i)
  \/ \E i \in 1..Len(handlers), symbols \in CompletionLists : CompletionReply(i, symbols)
  \/ \E position \in Positions :
       Cardinality(Requests) < MaxRequests /\ Definition(QueryUri, position)
  \/ \E i \in 1..Len(handlers), defLoc \in DeclarationLocations : DefinitionReply(i, defLoc)
  \/ \E position \in Positions :
       Cardinality(Requests) < MaxRequests /\ Hover(QueryUri, position)
  \/ \E i \in 1..Len(handlers), decl \in {<<>>} \cup {<<d>> : d \in Declarations} :
       HoverReply(i, decl)
  \/ Cardinality(Requests) < MaxRequests /\ DocumentSymbol(QueryUri)
  \/ \E i \in 1..Len(handlers), symbols \in SymbolTrees : DocumentSymbolReply(i, symbols)
  \/ Cardinality(Requests) < MaxRequests /\ DocumentFormatting(QueryUri)
  \/ \E i \in 1..Len(handlers) : FormattingReply(i)
  \/ \E item \in ResolveItems : Requests = {} /\ CompletionResolve(item)
  \/ \E i \in 1..Len(handlers), inQuery \in BOOLEAN : EngineThrows(i, inQuery)

FailureSpec == Init /\ [][FNext]_vars

(***************************************************************************)
(* The server with uris and paths of every short form                      *)
(***************************************************************************)
(* The most pieces a uri or a path is made of. *)
MaxPieces == 3

UriPieces == {"file://", "/a", "x"}

(* The uris of the editor and the paths of the engine: "file://" may come  *)
(* more than once, at the start or later, or not at all.                   *)
AllUris == UNION {[1..n -> UriPieces] : n \in 1..MaxPieces}

AllPaths == AllUris

(* The state after construction, no uri having a document or a handle. *)
UriInit ==
  /\ documents = [u \in AllUris |-> undefined]
  /\ docObjs = <<>>
  /\ files = [p \in {uriToPath(u) : u \in AllUris} |-> undefined]
  /\ fileObjs = <<>>
  /\ documentSettings = {}
  /\ handlers = <<>>
  /\ published = [u \in AllUris |-> [sent |-> FALSE, diagnostics |-> <<>>]]
  /\ newOpens = [u \in AllUris |-> 0]
  /\ lastEvent = [method |-> "initialized", uri |-> <<>>, hadFile |-> FALSE]
  /\ nEvents = 0
  /\ hasConfigurationCapability = FALSE
  /\ hasWorkspaceFolderCapability = FALSE
  /\ hasDiagnosticRelatedInformationCapability = FALSE
  /\ globalSettings = defaultSettings
  /\ initializeResult = <<>>

(* One document is opened and one definition is asked for in it, the       *)
(* declaration being in a file of any path.                                *)
UNext ==
  \/ /\ docObjs = <<>>
     /\ \E u \in AllUris : DidOpen(u, <<"a">>)
  \/ \E i \in 1..Len(handlers) : ChangeContentNotify(i, FALSE)
  \/ \E i \in 1..Len(handlers) : ChangeContentPublish(i)
  \/ /\ Requests = {}
     /\ docObjs # <<>>
     /\ Definition(docObjs[1].uri, [line |-> 0, character |-> 0])
  \/ \E i \in {k \in 1..Len(handlers) : handlers[k].kind = "definition"
                                         /\ handlers[k].pc = "getFile"},
          path \in AllPaths :
       DefinitionReply(i, <<[file |-> <<[path |-> path]>>, line |-> 0, col |-> 0]>>)

UriSpec == UriInit /\ [][UNext]_vars

(***************************************************************************)
(* Hover over every short doc comment, and completionItem/resolve          *)
(***************************************************************************)
(* The most annotations a doc comment has. *)
MaxAnnotations == 3

Annotations ==
  { ParamAnnotation("p"), ParamAnnotation("q"), OtherAnnotation,
    SeeAnnotation(WikipediaLink), SeeAnnotation(ManualLink),
    SeeAnnotation(WikibooksLink), SeeAnnotation(OtherLink),
    SeeAnnotation(MalformedLink) }

DocDeclarations ==
  { [signature |-> "module m()", docComment |-> <<>>] }
  \cup { [signature |-> "module m()",
          docComment |-> <<[documentationContent |-> "Makes m.",
                            annotations |-> annotations]>>] :
         annotations \in UNION {[1..n -> Annotations] : n \in 0..MaxAnnotations} }

(* What the engine may answer getSymbolDeclaration with. *)
HoverAnswers == {<<>>} \cup {<<d>> : d \in DocDeclarations}

(* The handlers of a kind that wait for their lookup. *)
Waiting(kind) ==
  {i \in 1..Len(handlers) : handlers[i].kind = kind /\ handlers[i].pc = "getFile"}

(* The document is opened and one request is made: a request changes       *)
(* nothing that a later request reads.                                     *)
RNext ==
  \/ \E text \in QueryTexts : DidOpen(QueryUri, text)
  \/ \E i \in 1..Len(handlers) : ChangeContentNotify(i, FALSE)
  \/ \E i \in 1..Len(handlers) : ChangeContentPublish(i)
  \/ \E position \in Positions : Requests = {} /\ Hover(QueryUri, position)
  \/ \E i \in Waiting("hover"), decl \in HoverAnswers : HoverReply(i, decl)
  \/ \E item \in ResolveItems : Requests = {} /\ CompletionResolve(item)

RenderSpec == Init /\ [][RNext]_vars

(***************************************************************************)
(* The version of the server that validates a document itself              *)
(* (validateScadFile), where the settings cache is filled                  *)
(***************************************************************************)
(* getDocumentSettings(resource), as far as it writes the cache: without   *)
(* the configuration capability the global settings are answered and the   *)
(* cache is left alone, otherwise the resource gets an entry unless it has *)
(* one.                                                                    *)
getDocumentSettings(settings, resource) ==
  IF hasConfigurationCapability THEN settings \cup {resource} ELSE settings

(* validateScadFile up to its await of the settings. *)
ValidateHandler(u, doc, calls) ==
  [kind |-> "validateScadFile", uri |-> u, document |-> doc,
   solutionFile |-> undefined, pc |-> "getDocumentSettings",
   calls |-> calls, sent |-> 0, result |-> pending]

(* The editor opens a document: the content-change handler notifies the    *)
(* engine and calls validateScadFile, which asks for the settings of the   *)
(* document and suspends.                                                  *)
DidOpenValidating(u, text) ==
  LET path == uriToPath(u)
      calls == notifyCalls(files[path], path, text)
      after == engineAfter(calls, files, fileObjs)
  IN
  /\ nEvents < MaxEvents
  /\ documents[u] = undefined
  /\ docObjs' = Append(docObjs, [uri |-> u, text |-> text])
  /\ documents' = [documents EXCEPT ![u] = Len(docObjs) + 1]
  /\ files' = after.files
  /\ fileObjs' = after.fileObjs
  /\ newOpens' = [newOpens EXCEPT ![u] = @ + opens(calls)]
  /\ documentSettings' = getDocumentSettings(documentSettings, u)
  /\ handlers' = Append(handlers, ValidateHandler(u, Len(docObjs) + 1, calls))
  /\ lastEvent' = Event("didOpen", u)
  /\ nEvents' = nEvents + 1
  /\ UNCHANGED published
  /\ UNCHANGED config

(* The editor edits an open document. *)
DidChangeValidating(u, text) ==
  LET path == uriToPath(u)
      calls == notifyCalls(files[path], path, text)
      after == engineAfter(calls, files, fileObjs)
  IN
  /\ nEvents < MaxEvents
  /\ documents[u] # undefined
  /\ docObjs' = [docObjs EXCEPT ![documents[u]].text = text]
  /\ files' = after.files
  /\ fileObjs' = after.fileObjs
  /\ newOpens' = [newOpens EXCEPT ![u] = @ + opens(calls)]
  /\ documentSettings' = getDocumentSettings(documentSettings, u)
  /\ handlers' = Append(handlers, ValidateHandler(u, documents[u], calls))
  /\ lastEvent' = Event("didChange", u)
  /\ nEvents' = nEvents + 1
  /\ UNCHANGED <<documents, published>>
  /\ UNCHANGED config

(* The settings have arrived: validateScadFile scans and parses the text   *)
(* the document has now and sends one diagnostic per error.                *)
ValidatePublish(i) ==
  LET h == handlers[i]
      text == docObjs[h.document].text
  IN
  /\ h.kind = "validateScadFile"
  /\ h.pc = "getDocumentSettings"
  /\ published' = [published EXCEPT ![h.uri] =
       [sent |-> TRUE, diagnostics |-> diagnosticsOf(errorsOf(text, 1), text)]]
  /\ handlers' = [handlers EXCEPT ![i].pc = "done", ![i].sent = @ + 1]
  /\ UNCHANGED <<documents, docObjs, files, fileObjs, documentSettings,
                 newOpens, lastEvent, nEvents>>
  /\ UNCHANGED config

(* documents.all(): the uris of the store in the order they were opened. *)
RECURSIVE documentsAll(_)
documentsAll(open) ==
  IF open = {} THEN <<>>
  ELSE LET u == CHOOSE u \in open : \A v \in open : documents[u] <= documents[v]
       IN  <<u>> \o documentsAll(open \ {u})

(* The configuration changes: the cache is emptied or the global settings  *)
(* are set, and every document of the store is validated again, which      *)
(* asks for its settings.                                                  *)
DidChangeConfigurationRevalidating(settings) ==
  LET all == IF configurationThrows(settings) THEN <<>>
             ELSE documentsAll({u \in Uris : documents[u] # undefined})
  IN
  /\ nEvents < MaxEvents
  /\ globalSettings' = globalSettingsAfter(settings)
  /\ documentSettings' =
       documentSettingsAfter(settings)
       \cup UNION {getDocumentSettings({}, all[k]) : k \in 1..Len(all)}
  /\ handlers' = handlers \o
       [k \in 1..Len(all) |-> ValidateHandler(all[k], documents[all[k]], <<>>)]
  /\ lastEvent' = [method |-> "didChangeConfiguration", uri |-> <<>>,
                   hadFile |-> FALSE]
  /\ nEvents' = nEvents + 1
  /\ UNCHANGED <<documents, docObjs, files, fileObjs, published, newOpens,
                 hasConfigurationCapability, hasWorkspaceFolderCapability,
                 hasDiagnosticRelatedInformationCapability, initializeResult>>

(* The clients that differ in what the settings depend on. *)
SettingsCapabilities == {c \in ClientCapabilities : c.textDocument = <<>>}

(* A text without an error and one with an error. *)
SettingsTexts == {<<"a">>, <<"a", "\n", "x">>}

SNext ==
  \/ \E capabilities \in SettingsCapabilities : Initialize(capabilities)
  \/ \E u \in Uris, text \in SettingsTexts :
       initializeResult # <<>> /\ DidOpenValidating(u, text)
  \/ \E u \in Uris, text \in SettingsTexts : DidChangeValidating(u, text)
  \/ \E i \in 1..Len(handlers) : ValidatePublish(i)
  \/ \E u \in Uris : DidClose(u)
  \/ \E settings \in ChangedSettings :
       initializeResult # <<>> /\ DidChangeConfigurationRevalidating(settings)

SettingsSpec == Init /\ [][SNext]_vars

(***************************************************************************)
(* Properties                                                              *)
(***************************************************************************)
InFlight(i) == handlers[i].pc \in {"getFile", "notify"}

Quiescent == \A i \in 1..Len(handlers) : ~InFlight(i)

(* p is the position of offset o in text: its line is the number of line   *)
(* terminators before the offset, its character the distance from the last *)
(* of them (from the start of the text when there is none); an offset past *)
(* the end of the text counts as the end of the text.                      *)
IsPositionOf(p, text, o) ==
  LET at == Min(o, Len(text))
      breaks == {k \in 1..at : text[k] = "\n"}
      lineStart == IF breaks = {} THEN 0
                   ELSE CHOOSE k \in breaks : \A j \in breaks : j <= k
  IN  /\ p.line = Cardinality(breaks)
      /\ p.character = at - lineStart

(* C1: a content-change handler whose handle lookup has returned makes     *)
(* exactly one engine call, notifyNewFileOpened when the lookup found no   *)
(* handle and notifyFileChanged otherwise, with the path of the uri and    *)
(* the whole text of the document; it makes no call before and none after. *)
ExactlyOneEngineNotification ==
  [][\A i \in 1..Len(handlers) :
       LET h == handlers[i]
           g == handlers'[i]
       IN  h.kind = "changeContent" =>
             /\ (h.pc = "getFile" /\ g.pc = "getFile") => g.calls = <<>>
             /\ (h.pc = "getFile" /\ g.pc # "getFile") =>
                  /\ Len(g.calls) = 1
                  /\ g.calls[1].op = IF h.solutionFile = undefined
                                       THEN "notifyNewFileOpened"
                                       ELSE "notifyFileChanged"
                  /\ g.calls[1].path = uriToPath(h.uri)
                  /\ g.calls[1].text = docObjs[h.document].text
             /\ h.pc # "getFile" => g.calls = h.calls]_vars

(* C1 witness: one handler has opened a file and another has changed one,  *)
(* with a text of more than one line.                                      *)
BothNotificationsMade ==
  \E i, j \in 1..Len(handlers) :
    /\ handlers[i].calls # <<>>
    /\ handlers[i].calls[1].op = "notifyNewFileOpened"
    /\ handlers[j].calls # <<>>
    /\ handlers[j].calls[1].op = "notifyFileChanged"
    /\ Len(handlers[j].calls[1].text) > 1

(* C2: between two closes of a uri the engine is told at most once that    *)
(* the file of that uri was newly opened.                                  *)
AtMostOneNewFileOpened == \A u \in Uris : newOpens[u] <= 1

CloseNotification(u) == DidClose(u) \/ DidCloseNotOpen(u)

NoFileNoSettings(u) == files[uriToPath(u)] = undefined /\ u \notin documentSettings

(* C3 as stated: a close notification for a uri with no engine handle and  *)
(* no cached settings changes neither the engine's handles, nor the        *)
(* document store, nor the settings cache.                                 *)
CloseWithoutFileChangesNothing ==
  [][\A u \in Uris :
       (CloseNotification(u) /\ NoFileNoSettings(u)) =>
         /\ files' = files
         /\ documentSettings' = documentSettings
         /\ documents' = documents]_vars

(* C3 amended: such a close notification changes neither the engine's      *)
(* handles nor the settings cache, and in the document store nothing but   *)
(* the entry of that uri.                                                  *)
CloseWithoutFileKeepsEngineAndSettings ==
  [][\A u \in Uris :
       (CloseNotification(u) /\ NoFileNoSettings(u)) =>
         /\ files' = files
         /\ documentSettings' = documentSettings
         /\ \A v \in Uris \ {u} : documents'[v] = documents[v]]_vars

(* C3 witness: a document was closed while the engine held no handle for   *)
(* it, and the engine holds the handle of another document.                *)
ClosedWithoutFile ==
  /\ lastEvent.method = "didClose"
  /\ ~lastEvent.hadFile
  /\ \E v \in Uris \ {lastEvent.uri} : files[uriToPath(v)] # undefined

(* C4: the close of document U leaves the engine without a handle for the  *)
(* path of U and the settings cache without an entry for U, and changes    *)
(* the handle and the cached settings of no other uri.                     *)
CloseDeregistersOnlyThatUri ==
  [][\A u \in Uris :
       DidClose(u) =>
         /\ files'[uriToPath(u)] = undefined
         /\ u \notin documentSettings'
         /\ \A v \in Uris \ {u} :
              /\ files'[uriToPath(v)] = files[uriToPath(v)]
              /\ (v \in documentSettings') = (v \in documentSettings)]_vars

(* C4 witness: a document whose handle the engine held was closed, and the *)
(* engine still holds the handle of another document.                      *)
ClosedWithFile ==
  /\ lastEvent.method = "didClose"
  /\ lastEvent.hadFile
  /\ files[uriToPath(lastEvent.uri)] = undefined
  /\ \E v \in Uris \ {lastEvent.uri} : files[uriToPath(v)] # undefined

(* C5: when a uri is closed and no handler is in flight, the engine holds  *)
(* no handle for it.                                                       *)
ClosedUriHasNoFile ==
  \A u \in Uris :
    (documents[u] = undefined /\ Quiescent) => files[uriToPath(u)] = undefined

(* C6: a content-change handler that has finished has published the        *)
(* diagnostics of its document once.                                       *)
EveryChangePublishes ==
  \A i \in 1..Len(handlers) :
    (handlers[i].kind = "changeContent" /\ handlers[i].pc = "done") =>
      handlers[i].sent = 1

(* C7: the diagnostics a handler publishes are, error by error and in the  *)
(* order of the handle's error list, one diagnostic of severity error with *)
(* the error's message and a range that starts and ends at the position of *)
(* the error's offset in the document.                                     *)
OneDiagnosticPerError ==
  [][\A i \in 1..Len(handlers) :
       LET h == handlers[i]
           errors == fileObjs[h.solutionFile].errors
           d == published'[h.uri].diagnostics
       IN  (h.kind = "changeContent" /\ handlers'[i].sent > h.sent) =>
             /\ Len(d) = Len(errors)
             /\ \A k \in 1..Len(errors) :
                  /\ d[k].severity = "Error"
                  /\ d[k].message = errors[k].message
                  /\ d[k].range.start = d[k].range.end
                  /\ IsPositionOf(d[k].range.start, docObjs[h.document].text,
                                  errors[k].char)]_vars

(* C7 witness: two diagnostics were published for a document, the first on *)
(* its first line and the second on its second line.                       *)
TwoDiagnosticsPublished ==
  \E u \in Uris :
    /\ published[u].sent
    /\ Len(published[u].diagnostics) = 2
    /\ published[u].diagnostics[1].range.start.line = 0
    /\ published[u].diagnostics[2].range.start.line = 1

(* C8: when no handler is in flight, every document of the store has an    *)
(* engine handle, and the text that handle was last given is the text of   *)
(* the document.                                                           *)
EngineConsistentWithStore ==
  Quiescent =>
    \A u \in Uris :
      documents[u] # undefined =>
        /\ files[uriToPath(u)] # undefined
        /\ fileObjs[files[uriToPath(u)]].text = docObjs[documents[u]].text

(* C9: a formatting handler whose lookup returned a handle that carries an *)
(* error answers with the empty list of edits and does not call the        *)
(* engine's formatter.                                                     *)
FormattingRefusedOnErrors ==
  [][\A i \in 1..Len(handlers) :
       LET h == handlers[i]
           g == handlers'[i]
       IN  (/\ h.kind = "formatting" /\ h.pc = "getFile" /\ g.pc = "done"
            /\ h.solutionFile # undefined
            /\ fileObjs[h.solutionFile].errors # <<>>) =>
             /\ g.result.status = "returned"
             /\ g.result.edits = <<>>
             /\ g.result.getFormattedCalls = 0]_vars

(* C9 witness: a formatting request of an open document whose handle       *)
(* carries errors was answered with no edit.                               *)
FormattingWasRefused ==
  \E i \in 1..Len(handlers) :
    /\ handlers[i].kind = "formatting"
    /\ handlers[i].pc = "done"
    /\ handlers[i].solutionFile # undefined
    /\ fileObjs[handlers[i].solutionFile].errors # <<>>
    /\ documents[handlers[i].uri] # undefined
    /\ handlers[i].result.status = "returned"
    /\ handlers[i].result.edits = <<>>

(* C10: a formatting handler whose lookup returned a handle without errors *)
(* and whose document is in the store answers with exactly one edit, from  *)
(* (0, 0) to the position of the end of the store's text, whose new text   *)
(* is the engine's reprint of that handle.                                 *)
FormattingReplacesWholeDocument ==
  [][\A i \in 1..Len(handlers) :
       LET h == handlers[i]
           g == handlers'[i]
           text == docObjs[documents[h.uri]].text
       IN  (/\ h.kind = "formatting" /\ h.pc = "getFile" /\ g.pc = "done"
            /\ h.solutionFile # undefined
            /\ fileObjs[h.solutionFile].errors = <<>>
            /\ documents[h.uri] # undefined) =>
             /\ g.result.status = "returned"
             /\ Len(g.result.edits) = 1
             /\ g.result.edits[1].range.start = [line |-> 0, character |-> 0]
             /\ IsPositionOf(g.result.edits[1].range.end, text, Len(text))
             /\ g.result.edits[1].newText = getFormatted(fileObjs[h.solutionFile])
             /\ g.result.getFormattedCalls = 1]_vars

(* C10 witness: a formatting request was answered with one edit that ends  *)
(* on the second line of a document the engine has not yet been told the   *)
(* new text of.                                                            *)
FormattingReturnedOneEdit ==
  \E i \in 1..Len(handlers) :
    /\ handlers[i].kind = "formatting"
    /\ handlers[i].pc = "done"
    /\ Len(handlers[i].result.edits) = 1
    /\ handlers[i].result.edits[1].range.end.line = 1

(***************************************************************************)
(* Completion, definition and hover                                        *)
(***************************************************************************)
(* Whether handler i holds a handle that has no syntax tree. *)
HandleWithoutAst(i) ==
  /\ handlers[i].solutionFile # undefined
  /\ ~fileObjs[handlers[i].solutionFile].ast

(* C11: a completion request for an open document whose handle has no      *)
(* syntax tree returns the empty list, at whatever position, does not fail *)
(* and does not call the engine's completion query.                        *)
CompletionWithoutAstIsEmpty ==
  [][\A i \in 1..Len(handlers) :
       (/\ handlers[i].kind = "completion"
        /\ handlers[i].pc = "getFile"
        /\ HandleWithoutAst(i)
        /\ handlers'[i].pc # "getFile")
       => /\ handlers'[i].pc = "done"
          /\ handlers'[i].result.status = "returned"
          /\ handlers'[i].result.value = <<>>
          /\ handlers'[i].result.queries = 0]_vars

CompletedWithoutAst ==
  \E i \in 1..Len(handlers) :
    /\ handlers[i].kind = "completion"
    /\ handlers[i].pc = "done"
    /\ HandleWithoutAst(i)
    /\ handlers[i].position = [line |-> 1, character |-> 1]
    /\ handlers[i].result.status = "returned"
    /\ handlers[i].result.value = <<>>

(* The presentation kind of each candidate kind. *)
PresentationKind ==
  { <<"FUNCTION", "Function">>, <<"MODULE", "Module">>,
    <<"VARIABLE", "Variable">>, <<"KEYWORD", "Keyword">>,
    <<"DIRECTORY", "Folder">>, <<"FILE", "File">> }

(* C12: the completion result has one item per engine candidate, in the    *)
(* engine's order: item k (counted from 0) has the label of candidate k,   *)
(* data k + 1 and the presentation kind of the candidate's kind, Text for  *)
(* any other kind.                                                         *)
CompletionItemsFollowCandidates ==
  [][\A i \in 1..Len(handlers), symbols \in CompletionLists :
       CompletionReply(i, symbols)
       => LET items == handlers'[i].result.value IN
          /\ handlers'[i].result.status = "returned"
          /\ Len(items) = Len(symbols)
          /\ \A k \in 0..(Len(symbols) - 1) :
               /\ items[k + 1].label = symbols[k + 1].name
               /\ items[k + 1].data = k + 1
               /\ \/ <<symbols[k + 1].type, items[k + 1].kind>> \in PresentationKind
                  \/ /\ \A pair \in PresentationKind : pair[1] # symbols[k + 1].type
                     /\ items[k + 1].kind = "Text"]_vars

CompletedWithFourItems ==
  \E i \in 1..Len(handlers) :
    /\ handlers[i].kind = "completion"
    /\ handlers[i].pc = "done"
    /\ Len(handlers[i].result.value) = 4
    /\ handlers[i].result.value[4].kind = "Text"
    /\ handlers[i].result.value[2].kind = "Folder"

(* C13: a definition request for an open document whose handle has a       *)
(* syntax tree returns null, and no error, when the engine resolves no     *)
(* declaration location (none, or one without a file), and otherwise the   *)
(* location whose uri is "file://" followed by the path of the             *)
(* declaration's file and whose range is empty at (line, col).             *)
DefinitionIsNullOrDeclarationLocation ==
  [][\A i \in 1..Len(handlers), defLoc \in DeclarationLocations :
       (DefinitionReply(i, defLoc) /\ ~noAst(handlers[i].solutionFile))
       => /\ handlers'[i].result.status = "returned"
          /\ IF defLoc = <<>> \/ defLoc[1].file = <<>>
               THEN handlers'[i].result.null /\ handlers'[i].result.value = <<>>
               ELSE /\ ~handlers'[i].result.null
                    /\ Len(handlers'[i].result.value) = 1
                    /\ LET location == handlers'[i].result.value[1] IN
                       /\ location.uri = <<"file://">> \o defLoc[1].file[1].path
                       /\ location.range.start =
                            [line |-> defLoc[1].line, character |-> defLoc[1].col]
                       /\ location.range.end = location.range.start]_vars

DefinitionFoundInOtherFile ==
  \E i \in 1..Len(handlers) :
    /\ handlers[i].kind = "definition"
    /\ handlers[i].pc = "done"
    /\ Len(handlers[i].result.value) = 1
    /\ handlers[i].result.value[1].uri = <<"file://", "/lib.scad">>

(* C14: a definition or hover request for an open document whose handle is *)
(* missing or has no syntax tree fails with an error: it returns neither   *)
(* null, nor a hover, nor a location.                                      *)
QueryWithoutAstFails ==
  [][\A i \in 1..Len(handlers) :
       (/\ handlers[i].kind \in {"definition", "hover"}
        /\ handlers[i].pc = "getFile"
        /\ noAst(handlers[i].solutionFile)
        /\ handlers'[i].pc # "getFile")
       => /\ handlers'[i].result.status \in {"File not opened.", "no ast"}
          /\ handlers'[i].result.value = <<>>
          /\ ~handlers'[i].result.null]_vars

DefinitionFailedWithoutAst ==
  \E i \in 1..Len(handlers) :
    /\ handlers[i].kind = "definition"
    /\ handlers[i].pc = "done"
    /\ HandleWithoutAst(i)
    /\ handlers[i].result.status = "File not opened."

(***************************************************************************)
(* Requests without a document or without a handle                         *)
(***************************************************************************)
(* Request i is the message received last: the document store and the      *)
(* engine's registry of paths are as they were when it arrived, but for    *)
(* what the content-change handlers in flight have registered since.      *)
LastMessage(i) ==
  /\ i \in Requests
  /\ i = Len(handlers)
  /\ lastEvent.method = handlers[i].kind
  /\ lastEvent.uri = handlers[i].uri

(* C15: a completion, definition, hover, formatting or document-symbol     *)
(* request for a uri that is not in the document store fails with an       *)
(* error, whatever the engine holds for the uri.                           *)
MissingDocumentFails ==
  \A i \in 1..Len(handlers) :
    (/\ LastMessage(i)
     /\ documents[handlers[i].uri] = undefined
     /\ handlers[i].pc = "done")
    => handlers[i].result.status # "returned"

(* C16 as stated: a completion, document-symbol or formatting request for  *)
(* a uri that has no registered handle returns an empty result and does    *)
(* not fail.                                                               *)
MissingHandleReturnsEmpty ==
  \A i \in 1..Len(handlers) :
    (/\ LastMessage(i)
     /\ handlers[i].kind \in {"completion", "documentSymbol", "formatting"}
     /\ ~lastEvent.hadFile
     /\ handlers[i].pc = "done")
    => /\ handlers[i].result.status = "returned"
       /\ IF handlers[i].kind = "formatting"
            THEN handlers[i].result.edits = <<>>
            ELSE handlers[i].result.value = <<>>

(* C16: a completion request for an open document whose uri has no         *)
(* registered handle returns the empty list without asking the engine and  *)
(* does not fail; a document-symbol or formatting request for a uri that   *)
(* has no registered handle fails with the error "No file!".               *)
MissingHandleEmptyCompletionElseNoFile ==
  \A i \in 1..Len(handlers) :
    (/\ LastMessage(i)
     /\ ~lastEvent.hadFile
     /\ handlers[i].pc = "done")
    => /\ (handlers[i].kind = "completion" /\ documents[handlers[i].uri] # undefined)
          => /\ handlers[i].result.status = "returned"
             /\ handlers[i].result.value = <<>>
             /\ handlers[i].result.queries = 0
       /\ handlers[i].kind \in {"documentSymbol", "formatting"}
          => handlers[i].result.status = "No file!"

SymbolsFailedWithoutHandle ==
  \E i \in 1..Len(handlers) :
    /\ LastMessage(i)
    /\ ~lastEvent.hadFile
    /\ handlers[i].kind = "documentSymbol"
    /\ handlers[i].pc = "done"
    /\ handlers[i].result.status = "No file!"

(* C17: a document-symbol request for a file whose handle carries errors   *)
(* returns an empty tree.                                                  *)
SymbolsEmptyOnErrors ==
  [][\A i \in 1..Len(handlers), symbols \in SymbolTrees :
       (/\ DocumentSymbolReply(i, symbols)
        /\ handlers[i].solutionFile # undefined
        /\ fileObjs[handlers[i].solutionFile].errors # <<>>)
       => /\ handlers'[i].result.status = "returned"
          /\ handlers'[i].result.value = <<>>]_vars

(***************************************************************************)
(* The position translator                                                 *)
(***************************************************************************)
(* Handler i has translated its position, in the text of its document. *)
Translated(i) == i \in Requests /\ handlers[i].result.offset # -1

TextOf(i) == docObjs[handlers[i].document].text

(* The offsets at which the lines of the text start. *)
LineStarts(text) == <<0>> \o computeLineOffsets(text, 1)

(* The number of characters of a line, its terminator left out. *)
LineLength(text, line) ==
  LET starts == LineStarts(text)
      next == IF line + 2 <= Len(starts) THEN starts[line + 2] ELSE Len(text)
      terminator == IF line + 2 > Len(starts) THEN 0
                    ELSE IF next >= 2 /\ text[next] = "\n" /\ text[next - 1] = "\r"
                      THEN 2
                    ELSE 1
  IN  next - terminator - starts[line + 1]

(* The line exists and the column is at most its length. *)
WithinBounds(text, position) ==
  /\ position.line + 1 <= Len(LineStarts(text))
  /\ position.character <= LineLength(text, position.line)

(* The number of characters that precede (line, column) in the text. *)
CharactersPreceding(text, position) ==
  LineStarts(text)[position.line + 1] + position.character

(* No line of the text ends with a "\r" that is not followed by "\n". *)
NoLoneCarriageReturn(text) ==
  \A k \in 1..Len(text) :
    text[k] = "\r" => (k < Len(text) /\ text[k + 1] = "\n")

(* C18 as stated: for every text and every (line, column) within bounds    *)
(* the translator returns the number of characters that precede it.        *)
TranslatorCountsPrecedingCharacters ==
  \A i \in 1..Len(handlers) :
    (Translated(i) /\ WithinBounds(TextOf(i), handlers[i].position))
    => handlers[i].result.offset =
         CharactersPreceding(TextOf(i), handlers[i].position)

(* C18: for every text whose lines end with "\n" or "\r\n" and every       *)
(* (line, column) within bounds, the translator returns the number of      *)
(* characters that precede it when that is less than the length of the     *)
(* text or the text is empty, and the length less one at the end of a      *)
(* text that is not empty.                                                 *)
TranslatorCountsPrecedingCharactersBeforeEnd ==
  \A i \in 1..Len(handlers) :
    (/\ Translated(i)
     /\ WithinBounds(TextOf(i), handlers[i].position)
     /\ NoLoneCarriageReturn(TextOf(i)))
    => LET preceding == CharactersPreceding(TextOf(i), handlers[i].position)
       IN  handlers[i].result.offset =
             (IF preceding < Len(TextOf(i)) \/ Len(TextOf(i)) = 0
                THEN preceding
                ELSE Len(TextOf(i)) - 1)

TranslatedStartOfSecondLine ==
  \E i \in 1..Len(handlers) :
    /\ Translated(i)
    /\ TextOf(i) = <<"\r", "\n", "\n">>
    /\ handlers[i].position = [line |-> 1, character |-> 0]
    /\ handlers[i].result.offset = 2

(* C19: for every text and every (line, column), in the text or not, the   *)
(* offset lies in 0..max(0, length - 1); it is max(0, length - 1) whenever *)
(* the characters before the line plus the column reach the length, and 0 *)
(* for the empty text.                                                     *)
OffsetIsClamped ==
  \A i \in 1..Len(handlers) :
    Translated(i)
    => LET text == TextOf(i)
           offset == handlers[i].result.offset
           sum == charsBeforeTheLine(text, 0, handlers[i].position.line)
                  + handlers[i].position.character
       IN  /\ offset \in 0..Max(0, Len(text) - 1)
           /\ sum >= Len(text) => offset = Max(0, Len(text) - 1)
           /\ Len(text) = 0 => offset = 0

TranslatedPastTheEnd ==
  \E i \in 1..Len(handlers) :
    /\ Translated(i)
    /\ Len(TextOf(i)) = 2
    /\ handlers[i].position = [line |-> MaxLen, character |-> MaxLen]
    /\ handlers[i].result.offset = 1

DeclaresWorkspaceFolders(capabilities) ==
  capabilities.workspace # <<>> /\ capabilities.workspace[1].workspaceFolders

(* What the answer advertises besides the kind of synchronisation. *)
AdvertisesProviders(capabilities, declared) ==
  /\ capabilities.documentFormattingProvider
  /\ capabilities.documentSymbolProvider
  /\ capabilities.completionProvider.resolveProvider
  /\ capabilities.definitionProvider
  /\ capabilities.hoverProvider
  /\ (capabilities.workspace # <<>>) <=> declared
  /\ capabilities.workspace # <<>>
     => capabilities.workspace[1].workspaceFolders.supported

ConfigurationChangeSetsCacheOrGlobal ==
  [][\A settings \in ChangedSettings :
       DidChangeConfiguration(settings)
       => /\ IF hasConfigurationCapability
               THEN documentSettings' = {} /\ globalSettings' = globalSettings
               ELSE /\ documentSettings' = documentSettings
                    /\ globalSettings' =
                         (IF settings # <<>> /\ settings[1].languageServerExample # <<>>
                            THEN settings[1].languageServerExample[1]
                            ELSE defaultSettings)
          /\ UNCHANGED <<documents, docObjs, files, fileObjs>>]_vars

(***************************************************************************)
(* completionItem/resolve and the rendering of documentation               *)
(***************************************************************************)
(* C23: completionItem/resolve sets detail and documentation to "module"   *)
(* and "A module" when the item's data is 1, to "function" and             *)
(* "A function" when it is 2, and returns every other item as it was;      *)
(* label, kind and data are never changed.                                 *)
ResolveSetsDetailByData ==
  \A i \in 1..Len(handlers) :
    handlers[i].kind = "completionResolve"
    => LET item == handlers[i].item
           resolved == handlers[i].result.value[1]
       IN  /\ handlers[i].result.status = "returned"
           /\ resolved.label = item.label
           /\ resolved.kind = item.kind
           /\ resolved.data = item.data
           /\ item.data = 1
              => /\ resolved.detail = <<"module">>
                 /\ resolved.documentation.value = <<Piece("string", "A module")>>
           /\ item.data = 2
              => /\ resolved.detail = <<"function">>
                 /\ resolved.documentation.value = <<Piece("string", "A function")>>
           /\ item.data \notin {1, 2} => resolved = item

ResolvedOtherData ==
  \E i \in 1..Len(handlers) :
    /\ handlers[i].kind = "completionResolve"
    /\ handlers[i].item.data = 3
    /\ handlers[i].item.documentation # noDocs
    /\ handlers[i].result.value[1] = handlers[i].item

(* The hover handlers that were given a declaration and have answered. *)
Rendered ==
  {i \in 1..Len(handlers) : handlers[i].kind = "hover" /\ handlers[i].decl # <<>>}

RenderingOf(i) == handlers[i].result.value[1].contents.value

ParamsOf(decl) ==
  SelectSeq(decl.docComment[1].annotations, LAMBDA a : a.class = "ParamAnnotation")

SeesOf(decl) ==
  SelectSeq(decl.docComment[1].annotations, LAMBDA a : a.class = "SeeAnnotation")

(* The forms of a see-also line. *)
SeeAlsoForms ==
  {"See more on Wikipedia", "See more on the OpenSCAD User Manual",
   "See also, as link", "See also, as text"}

(* C24: the documentation of a declaration is the signature block, then    *)
(* the free text of the doc comment, then "Parameters:" with one bullet    *)
(* per parameter annotation in source order when there is at least one     *)
(* such annotation, then one see-also line per cross-reference annotation  *)
(* in source order; without a doc comment it is the signature block alone. *)
DocumentationInOrder ==
  \A i \in Rendered :
    LET decl == handlers[i].decl[1]
        value == RenderingOf(i)
    IN  /\ value[1] = Piece("signature", decl.signature)
        /\ decl.docComment = <<>> => Len(value) = 1
        /\ decl.docComment # <<>>
           => LET params == ParamsOf(decl)
                  sees == SeesOf(decl)
                  section == IF Len(params) > 0 THEN 1 + Len(params) ELSE 0
              IN  /\ Len(value) = 2 + section + Len(sees)
                  /\ value[2] = Piece("text", decl.docComment[1].documentationContent)
                  /\ Len(params) > 0 => value[3] = Piece("Parameters:", "")
                  /\ \A k \in 1..Len(params) :
                       value[3 + k] = Piece("bullet", params[k].link.name)
                  /\ \A k \in 1..Len(sees) :
                       /\ value[2 + section + k].piece \in SeeAlsoForms
                       /\ value[2 + section + k].of = sees[k].link.name

RenderedParametersAndSeeAlso ==
  \E i \in Rendered :
    /\ handlers[i].decl[1].docComment # <<>>
    /\ Len(ParamsOf(handlers[i].decl[1])) = 2
    /\ Len(SeesOf(handlers[i].decl[1])) = 1
    /\ handlers[i].decl[1].docComment[1].annotations[1].class = "SeeAnnotation"
    /\ Len(RenderingOf(i)) = 6

(* The see-also lines of rendering i, in order. *)
SeeAlsoLinesOf(i) ==
  SelectSeq(RenderingOf(i), LAMBDA piece : piece.piece \in SeeAlsoForms)

(* C25: every cross-reference annotation gives exactly one see-also line:  *)
(* of Wikipedia when the host of its link ends with wikipedia.org, of the  *)
(* User Manual when the host ends with wikibooks.org and the path starts   *)
(* with /wiki/OpenSCAD_User_Manual, a labelled link for any other link     *)
(* that is well formed, and the link as plain text when it is not well     *)
(* formed; the annotations after such a link are rendered all the same.    *)
OneSeeAlsoLinePerCrossReference ==
  \A i \in Rendered :
    handlers[i].decl[1].docComment # <<>>
    => LET sees == SeesOf(handlers[i].decl[1])
           lines == SeeAlsoLinesOf(i)
       IN  /\ handlers[i].result.status = "returned"
           /\ Len(lines) = Len(sees)
           /\ \A k \in 1..Len(sees) :
                LET link == sees[k].link IN
                /\ lines[k].of = link.name
                /\ lines[k].piece =
                     (IF ~link.wellFormed THEN "See also, as text"
                      ELSE IF link.hostname[Len(link.hostname)] = "wikipedia.org"
                        THEN "See more on Wikipedia"
                      ELSE IF /\ link.hostname[Len(link.hostname)] = "wikibooks.org"
                              /\ link.pathname[1] = "/wiki/OpenSCAD_User_Manual"
                        THEN "See more on the OpenSCAD User Manual"
                      ELSE "See also, as link")

RenderedAfterMalformedLink ==
  \E i \in Rendered :
    /\ handlers[i].decl[1].docComment # <<>>
    /\ Len(SeesOf(handlers[i].decl[1])) = 3
    /\ ~SeesOf(handlers[i].decl[1])[1].link.wellFormed
    /\ SeeAlsoLinesOf(i)[2].piece = "See more on the OpenSCAD User Manual"
    /\ SeeAlsoLinesOf(i)[3].piece = "See also, as link"

(***************************************************************************)
(* Uris and paths                                                          *)
(***************************************************************************)
(* C26: the path of a declaration made a uri and the uri made a path again *)
(* is the path, and the uri of a document that starts with "file://" made  *)
(* a path and the path made a uri again is the uri; one "file://" at the   *)
(* start is added or stripped, and no more.                                *)
UriPathSymmetric ==
  \A i \in 1..Len(handlers) :
    /\ (handlers[i].kind = "definition" /\ handlers[i].defLoc # <<>>)
       => LET path == handlers[i].defLoc[1].file[1].path
              uri == handlers[i].result.value[1].uri
          IN  uriToPath(uri) = path /\ uri = <<"file://">> \o path
    /\ (/\ handlers[i].kind = "changeContent"
        /\ handlers[i].calls # <<>>
        /\ Head(handlers[i].uri) = "file://")
       => LET uri == handlers[i].uri
              path == handlers[i].calls[1].path
          IN  pathToUri(path) = uri /\ <<"file://">> \o path = uri

ConvertedDoubledPrefix ==
  \E i, j \in 1..Len(handlers) :
    /\ handlers[i].kind = "changeContent"
    /\ handlers[i].uri = <<"file://", "file://", "/a">>
    /\ handlers[i].calls # <<>>
    /\ handlers[i].calls[1].path = <<"file://", "/a">>
    /\ handlers[j].kind = "definition"
    /\ handlers[j].defLoc # <<>>
    /\ handlers[j].defLoc[1].file[1].path = <<"file://", "x">>
    /\ handlers[j].result.value[1].uri = <<"file://", "file://", "x">>

CompletionDocumentationIsOwn ==
  [][\A i \in 1..Len(handlers), symbols \in CompletionLists :
       CompletionReply(i, symbols)
       => \A k \in 1..Len(symbols) :
            handlers'[i].result.value[k].documentation =
              (IF /\ symbols[k].type \in {"FUNCTION", "MODULE", "VARIABLE"}
                  /\ symbols[k].decl # noDecl
                 THEN declToMarkupDocs(symbols[k].decl)
                 ELSE noDocs)]_vars

(***************************************************************************)
(* The order of the steps of the content-change handlers                   *)
(***************************************************************************)
(* C29: of two content changes of one uri, the engine is notified of the   *)
(* one that arrived first before it is notified of the other.              *)
NotifiedInArrivalOrder ==
  \A i, j \in 1..Len(handlers) :
    (/\ i < j
     /\ handlers[i].kind = "changeContent"
     /\ handlers[j].kind = "changeContent"
     /\ handlers[i].uri = handlers[j].uri
     /\ handlers[j].pc # "getFile")
    => handlers[i].pc # "getFile"

(* C30: in a content-change handler the lookup returns, then the engine is *)
(* notified, and only then are the diagnostics published: a handler that   *)
(* waits for its lookup has notified and published nothing, and a handler  *)
(* that has published has notified the engine of its change before.        *)
PublishedOnlyAfterNotified ==
  \A i \in 1..Len(handlers) :
    handlers[i].kind = "changeContent"
    => /\ handlers[i].pc = "getFile"
          => (handlers[i].calls = <<>> /\ handlers[i].sent = 0)
       /\ handlers[i].pc = "notify"
          => (Len(handlers[i].calls) = 1 /\ handlers[i].sent = 0)
       /\ handlers[i].sent > 0
          => /\ handlers[i].pc = "done"
             /\ Len(handlers[i].calls) = 1
             /\ handlers[i].calls[1].path = uriToPath(handlers[i].uri)
             /\ handlers[i].sent = 1

PublishedAfterChangeNotified ==
  \E i \in 1..Len(handlers) :
    /\ handlers[i].kind = "changeContent"
    /\ handlers[i].sent = 1
    /\ handlers[i].calls[1].op = "notifyFileChanged"
    /\ published[handlers[i].uri].sent

(***************************************************************************)
(* The diagnostics left behind once every handler has finished             *)
(***************************************************************************)
(* C31: when no handler is in flight, the diagnostics published last for   *)
(* an open uri are the diagnostics of the errors of the analysis of the    *)
(* text the document has now.                                              *)
PublishedDiagnosticsAreCurrent ==
  Quiescent =>
    \A u \in Uris :
      (documents[u] # undefined /\ published[u].sent) =>
        LET text == docObjs[documents[u]].text IN
        published[u].diagnostics =
          diagnosticsOf(SolutionFile(uriToPath(u), text).errors, text)

(***************************************************************************)
(* The settings cache                                                      *)
(***************************************************************************)
(* C32: every uri that has an entry in the settings cache is the uri of a  *)
(* document the store holds.                                               *)
SettingsOnlyOfOpenDocuments ==
  \A u \in documentSettings : documents[u] # undefined

(* C32 witness: a document was closed whose settings had been cached when  *)
(* it was opened, and the cache still holds the settings of the other      *)
(* document.                                                               *)
ClosedOneOfTwoCached ==
  /\ hasConfigurationCapability
  /\ lastEvent.method = "didClose"
  /\ lastEvent.uri \notin documentSettings
  /\ documentSettings # {}

(***************************************************************************)
(* What the requests leave alone                                           *)
(***************************************************************************)
(* A step of a request handler: a request is dispatched, or a dispatched   *)
(* request goes on, answers or fails.                                      *)
RequestStep ==
  \E i \in 1..Len(handlers') :
    /\ handlers'[i].kind # "changeContent"
    /\ (i > Len(handlers) \/ handlers'[i] # handlers[i])

(* C33: no step of a completion, completion-resolve, document-symbol,      *)
(* definition, hover or formatting handler, whether the handler answers or *)
(* fails, changes the engine's registry or a handle, the document store or *)
(* a document, the settings cache, or the published diagnostics.           *)
QueryHandlersAreReadOnly ==
  [][RequestStep =>
       UNCHANGED <<documents, docObjs, files, fileObjs, documentSettings,
                   published, newOpens>>]_vars

(* C33 witness: a hover request was answered for a document that is open   *)
(* and has a handle.                                                       *)
HoverAnsweredOnOpenDocument ==
  \E i \in Requests :
    /\ handlers[i].kind = "hover"
    /\ handlers[i].pc = "done"
    /\ handlers[i].result.status = "returned"
    /\ documents[QueryUri] # undefined
    /\ files[uriToPath(QueryUri)] # undefined

(***************************************************************************)
(* The versions a formatting edit is made of                               *)
(***************************************************************************)
(* C34: when a formatting handler answers with an edit, the text of the    *)
(* document, from which the replaced range is computed, is the text the    *)
(* handle holds, from which the errors and the formatted output come.      *)
FormattingEditOfOneVersion ==
  [][\A i \in 1..Len(handlers) :
       (/\ handlers[i].kind = "formatting"
        /\ handlers[i].pc = "getFile"
        /\ handlers'[i].pc = "done"
        /\ Len(handlers'[i].result.edits) = 1)
       => fileObjs[handlers[i].solutionFile].text =
            docObjs[documents[handlers[i].uri]].text]_vars

(***************************************************************************)
(* The contents of a hover                                                 *)
(***************************************************************************)
(* C35: a hover request on an open document whose handle has a syntax tree *)
(* is answered, not failed: with the contents "<unknown>" when the engine  *)
(* finds no declaration at the position, and with the documentation        *)
(* rendering of the declaration when it finds one.                         *)
HoverIsUnknownOrRendering ==
  \A i \in 1..Len(handlers) :
    (/\ handlers[i].kind = "hover"
     /\ handlers[i].pc = "done"
     /\ handlers[i].document # undefined
     /\ ~noAst(handlers[i].solutionFile))
    => /\ handlers[i].result.status = "returned"
       /\ Len(handlers[i].result.value) = 1
       /\ handlers[i].result.value[1].contents =
            (IF handlers[i].decl = <<>>
               THEN [kind |-> "string", value |-> <<Piece("string", "<unknown>")>>]
               ELSE declToMarkupDocs(handlers[i].decl[1]))

(* C35 witness: a hover on an analysed document was answered after the     *)
(* engine found no declaration at the position.                            *)
HoveredOverNoDeclaration ==
  \E i \in 1..Len(handlers) :
    /\ handlers[i].kind = "hover"
    /\ handlers[i].pc = "done"
    /\ handlers[i].document # undefined
    /\ ~noAst(handlers[i].solutionFile)
    /\ handlers[i].decl = <<>>
    /\ handlers[i].result.status = "returned"

====
